---- MODULE Spec2Model ----
(***************************************************************************)
(* Model of the knoguchi/rag data plane: the document service (ingestion,  *)
(* deletion, background processing), the metadata store tables it writes,  *)
(* the per-tenant vector collections, the query pipeline and the LLM       *)
(* token stream.                                                           *)
(***************************************************************************)
EXTENDS Integers, Sequences, FiniteSets, TLC

\* ------------------------------------------------------------------------
\* Bounds of the model
\* ------------------------------------------------------------------------
MaxDocs == 2
MaxCalls == 2
MaxDeletes == 1
MaxHits == 3
MaxLines == 3
MaxMessages == 2
MaxAppends == 3
Ttl == 1
MaxTime == 3
MaxItems == 5
MaxTexts == 3
BatchConcurrency == 2
MaxQueries == 3

\* ------------------------------------------------------------------------
\* Constants of the program.  Scores are counted in tenths: 5 is 0.5.
\* ------------------------------------------------------------------------
DefaultTopK == 4
DefaultMinScore == 5
Oversampling == 3
DedupThreshold == 7
MissingRerankScore == 5
ScoreOne == 10
ShortToken == 2

\* ------------------------------------------------------------------------
\* Input domains.  Strings are sequences of one-character strings.
\* ------------------------------------------------------------------------
Tenants == {"t1", "t2"}
DocIds == 1..MaxDocs
Calls == 1..MaxCalls
Sources == {<<>>, <<"a">>}
Contents == {<<>>, <<"b">>, <<" ">>}
Urls == {<<"u">>, <<"v">>}
Bodies == {<<"b">>, <<"x">>}

VARIABLES documents, document_chunks, points, nextId, task, call, del, hits,
          query, qs, gen, events, tenant, treply,
          conversations, now, appended, memOp, rpc, chunker,
          batch, session, pipeline

\* the variables of the document service and of the vector search
docVars == <<documents, document_chunks, points, nextId, task, call, del, hits>>

\* the variables of the query pipeline and of the token stream
pipeVars == <<query, qs, gen, events>>

\* the tenant row and the answer of the last tenant call
tenantVars == <<tenant, treply>>

\* the conversation memory: the sessions, the clock, and for the properties
\* what was appended to each session since it was created and the last call
memVars == <<conversations, now, appended, memOp>>

\* one Query or QueryStream call seen by its caller
rpcVars == <<rpc>>

\* one text on its way through the chunker
chunkVars == <<chunker>>

\* one EmbedBatch call and what processDocument does with its result
batchVars == <<batch>>

\* the Query or QueryStream call that uses the conversation memory
sessionVars == <<session>>

\* one run of processDocument up to the chunk rows, metadata included
pipelineVars == <<pipeline>>

sideVars == <<tenantVars, memVars, rpcVars, chunkVars, batchVars, sessionVars, pipelineVars>>

\* the variables a tenant call leaves alone
exceptTenant == <<docVars, pipeVars, memVars, rpcVars, chunkVars, batchVars, sessionVars, pipelineVars>>

\* the variables the conversation memory leaves alone
exceptMemory == <<docVars, pipeVars, tenantVars, rpcVars, chunkVars, batchVars, sessionVars, pipelineVars>>

\* the variables the status of a query call leaves alone
exceptRpc == <<docVars, pipeVars, tenantVars, memVars, chunkVars, batchVars, sessionVars, pipelineVars>>

\* the variables a call with a session leaves alone, the memory apart
exceptSession == <<docVars, pipeVars, tenantVars, rpcVars, chunkVars, batchVars, pipelineVars>>

\* the variables the ingestion pipeline leaves alone
exceptPipeline == <<docVars, pipeVars, tenantVars, memVars, rpcVars, chunkVars, batchVars,
                    sessionVars>>

\* the variables EmbedBatch leaves alone
exceptBatch == <<docVars, pipeVars, tenantVars, memVars, rpcVars, chunkVars, sessionVars, pipelineVars>>

\* the variables the chunker leaves alone
exceptChunker == <<docVars, pipeVars, tenantVars, memVars, rpcVars, batchVars, sessionVars, pipelineVars>>

vars == <<docVars, pipeVars, sideVars>>

\* ------------------------------------------------------------------------
\* Pure helpers of the document service
\* ------------------------------------------------------------------------

\* sha256 + hex: an injective digest, never the empty string
hashContent(content) == <<"sha256", content>>

\* a blank, a line break, a blank line
Whitespace == {" ", "\n", "\n\n"}

RECURSIVE TrimLeft(_)
TrimLeft(str) ==
    IF str # <<>> /\ Head(str) \in Whitespace THEN TrimLeft(Tail(str)) ELSE str

RECURSIVE TrimRight(_)
TrimRight(str) ==
    IF str # <<>> /\ str[Len(str)] \in Whitespace
    THEN TrimRight(SubSeq(str, 1, Len(str) - 1)) ELSE str

\* strings.TrimSpace
TrimSpace(str) == TrimRight(TrimLeft(str))

\* Pipeline.ProcessWithMetadata rejects content that is empty after trimming
IsBlank(content) == TrimSpace(content) = <<>>

RECURSIVE Fields(_)
\* strings.Fields: the number of words, a word being a run of non-blank characters
Fields(str) ==
    IF str = <<>> THEN 0
    ELSE IF Head(str) \in Whitespace THEN Fields(Tail(str))
    ELSE IF Len(str) > 1 /\ str[2] \notin Whitespace THEN Fields(Tail(str))
    ELSE Fields(Tail(str)) + 1

\* Chunker.Chunk for a tenant whose chunker is the fixed one, a word a chunk
\* and no overlap: the number of chunks
chunkFixed(content) == Fields(TrimSpace(content))

convertStatus(status) ==
    IF status \in {"PENDING", "PROCESSING", "READY", "FAILED"} THEN status
    ELSE "UNSPECIFIED"

\* one collection shared by every tenant
sharedCollection(tenantID) == <<"tenant_">>

collectionName(tenantID) == <<"tenant_", tenantID>>

\* ------------------------------------------------------------------------
\* Metadata store: documents table (UNIQUE(tenant_id, content_hash)) and
\* document_chunks table (document_id REFERENCES documents ON DELETE CASCADE)
\* ------------------------------------------------------------------------
NoRow == [tenant_id |-> "", source |-> <<>>, content_hash |-> <<>>,
          status |-> "NONE", chunk_count |-> 0, error_message |-> ""]

Exists(id) == documents[id].status # "NONE"

\* the unique constraint, as seen by a write of row id
UniqueOk(id, doc) ==
    \A e \in DocIds \ {id} :
        ~(Exists(e) /\ documents[e].tenant_id = doc.tenant_id
                    /\ documents[e].content_hash = doc.content_hash)

\* a lookup that never finds the row
GetByHashMiss(tenantID, hash) == 0

\* DocumentRepo.GetByHash: id of the row, 0 for ErrNotFound
GetByHash(tenantID, hash) ==
    IF \E e \in DocIds : Exists(e) /\ documents[e].tenant_id = tenantID
                                   /\ documents[e].content_hash = hash
    THEN CHOOSE e \in DocIds : Exists(e) /\ documents[e].tenant_id = tenantID
                                         /\ documents[e].content_hash = hash
    ELSE 0

\* DocumentRepo.Create succeeds
CreateOk(id, doc) == UniqueOk(id, doc)

\* an UPDATE that inserts the row when it is missing
UpsertOk(id, doc, dbOk) == dbOk /\ UniqueOk(id, doc)

\* DocumentRepo.Update succeeds: the store answered, the row is there and the
\* write keeps (tenant_id, content_hash) unique
UpdateOk(id, doc, dbOk) == dbOk /\ Exists(id) /\ UniqueOk(id, doc)

Update(id, doc, dbOk) ==
    IF UpdateOk(id, doc, dbOk) THEN [documents EXCEPT ![id] = doc] ELSE documents

\* DocumentRepo.CreateChunks: one batch, all rows or none
CreateChunksOk(id, dbOk) == dbOk /\ Exists(id)

ChunkRows(id, n) == {<<id, i>> : i \in 0..(n - 1)}

\* QdrantStore.Upsert: the points of the chunks, in the tenant's collection
UpsertPoints(tenantID, id, n) == {<<collectionName(tenantID), id, i>> : i \in 0..(n - 1)}

\* QdrantStore.Delete: filter document_id = id in the tenant's collection
DeletePoints(tenantID, id) ==
    {p \in points : ~(p[1] = collectionName(tenantID) /\ p[2] = id)}

\* QdrantStore.Search reads one collection
SearchCollection(tenantID) == {p \in points : p[1] = collectionName(tenantID)}

\* DocumentService.GetDocument
GetDocument(id) ==
    IF id \in DocIds /\ Exists(id) THEN [code |-> "OK", doc |-> documents[id]]
    ELSE [code |-> "NotFound", doc |-> NoRow]

\* ------------------------------------------------------------------------
\* Background task of a document (the goroutine and its *Document copy)
\* ------------------------------------------------------------------------
NoTask == [kind |-> "none", pc |-> "none", doc |-> NoRow, content |-> <<>>,
           chunks |-> 0]

\* markDocumentFailed: the copy after the assignment
Failed(doc, msg) == [doc EXCEPT !.status = "FAILED", !.error_message = msg]

\* a failure path that goes on with the next step
FallThroughAfterFailure(nextPc) == nextPc

\* every failure path of processDocument / processURL returns after
\* markDocumentFailed
ReturnAfterFailure(nextPc) == "done"

\* ------------------------------------------------------------------------
\* Client calls: IngestDocument / IngestURL calls in slots taken in order of
\* arrival, and one DeleteDocument call per document id
\* ------------------------------------------------------------------------
NoRes == [code |-> "", id |-> 0, status |-> "", created |-> FALSE]

\* after: the ingest calls answered before this one arrived
\* gone:  the documents whose DeleteDocument had succeeded before it arrived
NoCall == [op |-> "none", pc |-> "idle", tenant |-> "", source |-> <<>>,
           content |-> <<>>, hash |-> <<>>, after |-> {}, gone |-> {},
           res |-> NoRes]

NoDel == [pc |-> "idle", tenant |-> "", steps |-> <<>>, vecErr |-> FALSE, code |-> ""]

CanStart(c) == call[c].pc = "idle" /\ (IF c = 1 THEN TRUE ELSE call[c - 1].pc # "idle")

Finished == {c \in Calls : call[c].pc = "done"}

Gone == {d \in DocIds : del[d].pc = "done" /\ del[d].code = "OK"}

Creating == {c \in Calls : call[c].pc = "create"}

\* the server process runs until a goroutine panics
Running == \A d \in DocIds : task[d].pc # "panic"

\* no query is being answered
NoQuery == [pc |-> "none"]

PipeIdle ==
    /\ query = NoQuery
    /\ qs = NoQuery
    /\ gen = NoQuery
    /\ events = <<>>

\* no tenant has been created
NoTenant == [name |-> ""]

\* the sessions of the conversation memory
Sessions == {"s1", "s2"}

\* a session the store does not hold
NoConversation == [exists |-> FALSE, Messages |-> <<>>, CreatedAt |-> 0, UpdatedAt |-> 0]

\* NewStore: no conversations
MemoryIdle ==
    /\ conversations = [id \in Sessions |-> NoConversation]
    /\ now = 0
    /\ appended = [id \in Sessions |-> <<>>]
    /\ memOp = NoQuery

SideIdle ==
    /\ tenant = NoTenant
    /\ treply = NoQuery
    /\ MemoryIdle
    /\ rpc = NoQuery
    /\ chunker = NoQuery
    /\ batch = NoQuery
    /\ session = NoQuery
    /\ pipeline = NoQuery

DocInit ==
    /\ documents = [d \in DocIds |-> NoRow]
    /\ document_chunks = {}
    /\ points = {}
    /\ nextId = 1
    /\ task = [d \in DocIds |-> NoTask]
    /\ call = [c \in Calls |-> NoCall]
    /\ del = [d \in DocIds |-> NoDel]
    /\ hits = [tenant |-> "", docs |-> {}]

Init == DocInit /\ PipeIdle /\ SideIdle

\* IngestDocument up to the duplicate lookup
IngestDocument(c, tenantID, source, content) ==
    /\ Running
    /\ CanStart(c)
    /\ nextId + Cardinality(Creating) <= MaxDocs
    /\ LET contentHash == hashContent(source \o <<"\n">> \o content)
           existing == GetByHash(tenantID, contentHash)
           base == [NoCall EXCEPT !.op = "IngestDocument", !.tenant = tenantID,
                                  !.source = source, !.content = content,
                                  !.hash = contentHash, !.after = Finished,
                                  !.gone = Gone]
       IN call' = [call EXCEPT ![c] =
            IF content = <<>>
            THEN [base EXCEPT !.pc = "done", !.res.code = "InvalidArgument"]
            ELSE IF existing # 0
            THEN [base EXCEPT !.pc = "done",
                              !.res = [code |-> "OK", id |-> existing,
                                       status |-> convertStatus(documents[existing].status),
                                       created |-> FALSE]]
            ELSE [base EXCEPT !.pc = "create"]]
    /\ UNCHANGED <<documents, document_chunks, points, nextId, task, del, hits, pipeVars, sideVars>>

\* IngestDocument from docRepo.Create to the return
IngestDocumentCreate(c) ==
    /\ Running
    /\ call[c].pc = "create"
    /\ nextId <= MaxDocs
    /\ LET docID == nextId
           doc == [tenant_id |-> call[c].tenant,
                   source |-> IF call[c].source = <<>> THEN <<"direct-upload">>
                              ELSE call[c].source,
                   content_hash |-> call[c].hash, status |-> "PROCESSING",
                   chunk_count |-> 0, error_message |-> ""]
       IN IF CreateOk(docID, doc)
          THEN /\ documents' = [documents EXCEPT ![docID] = doc]
               /\ task' = [task EXCEPT ![docID] =
                     [NoTask EXCEPT !.kind = "doc", !.pc = "processing",
                                    !.doc = doc, !.content = call[c].content]]
               /\ nextId' = nextId + 1
               /\ call' = [call EXCEPT ![c].pc = "done",
                                       ![c].res = [code |-> "OK", id |-> docID,
                                                   status |-> "PROCESSING",
                                                   created |-> TRUE]]
          ELSE /\ call' = [call EXCEPT ![c].pc = "done", ![c].res.code = "Internal"]
               /\ UNCHANGED <<documents, task, nextId>>
    /\ UNCHANGED <<document_chunks, points, del, hits, pipeVars, sideVars>>

\* IngestURL: one insert of a PENDING row, then the background fetch
IngestURL(c, tenantID, url) ==
    /\ Running
    /\ CanStart(c)
    /\ nextId + Cardinality(Creating) <= MaxDocs
    /\ LET docID == nextId
           doc == [tenant_id |-> tenantID, source |-> url, content_hash |-> <<>>,
                   status |-> "PENDING", chunk_count |-> 0, error_message |-> ""]
           base == [NoCall EXCEPT !.op = "IngestURL", !.tenant = tenantID,
                                  !.source = url, !.after = Finished,
                                  !.gone = Gone, !.pc = "done"]
       IN IF CreateOk(docID, doc)
          THEN /\ documents' = [documents EXCEPT ![docID] = doc]
               /\ task' = [task EXCEPT ![docID] =
                     [NoTask EXCEPT !.kind = "url", !.pc = "url_processing", !.doc = doc]]
               /\ nextId' = nextId + 1
               /\ call' = [call EXCEPT ![c] =
                     [base EXCEPT !.res = [code |-> "OK", id |-> docID,
                                           status |-> "PENDING", created |-> TRUE]]]
          ELSE /\ call' = [call EXCEPT ![c] = [base EXCEPT !.res.code = "Internal"]]
               /\ UNCHANGED <<documents, task, nextId>>
    /\ UNCHANGED <<document_chunks, points, del, hits, pipeVars, sideVars>>

\* DeleteDocument up to docRepo.GetByID
DeleteDocument(id) ==
    /\ Running
    /\ del[id].pc = "idle"
    /\ Cardinality({d \in DocIds : del[d].pc # "idle"}) < MaxDeletes
    /\ del' = [del EXCEPT ![id] =
            IF Exists(id)
            THEN [NoDel EXCEPT !.pc = "delete_vectors", !.tenant = documents[id].tenant_id]
            ELSE [NoDel EXCEPT !.pc = "done", !.code = "NotFound"]]
    /\ UNCHANGED <<documents, document_chunks, points, nextId, task, call, hits, pipeVars, sideVars>>

\* a failed vectorDB.Delete ends the call
AbortOnVectorError(vecOk) == IF vecOk THEN "delete_chunks" ELSE "done"

\* a failed vectorDB.Delete is dropped: the call goes on to the chunk rows
AfterVectorDelete(vecOk) == "delete_chunks"

\* DeleteDocument: vectorDB.Delete(doc.TenantID, doc.ID)
DeleteDocumentVectors(id, vecOk) ==
    /\ Running
    /\ del[id].pc = "delete_vectors"
    /\ points' = IF vecOk THEN DeletePoints(del[id].tenant, id) ELSE points
    /\ del' = [del EXCEPT ![id].pc = AfterVectorDelete(vecOk),
                          ![id].steps = Append(@, "vectors"),
                          ![id].vecErr = ~vecOk]
    /\ UNCHANGED <<documents, document_chunks, nextId, task, call, hits, pipeVars, sideVars>>

\* DeleteDocument: docRepo.DeleteChunks(id), its error dropped as well
DeleteDocumentChunks(id, dbOk) ==
    /\ Running
    /\ del[id].pc = "delete_chunks"
    /\ document_chunks' = IF dbOk THEN {r \in document_chunks : r[1] # id}
                          ELSE document_chunks
    /\ del' = [del EXCEPT ![id].pc = "delete_row", ![id].steps = Append(@, "chunks")]
    /\ UNCHANGED <<documents, points, nextId, task, call, hits, pipeVars, sideVars>>

\* DeleteDocument: docRepo.Delete(id); the chunk rows cascade with the row
DeleteDocumentRow(id, dbOk) ==
    /\ Running
    /\ del[id].pc = "delete_row"
    /\ LET ok == dbOk /\ Exists(id)
       IN /\ documents' = IF ok THEN [documents EXCEPT ![id] = NoRow] ELSE documents
          /\ document_chunks' = IF ok THEN {r \in document_chunks : r[1] # id}
                                ELSE document_chunks
          /\ del' = [del EXCEPT ![id].pc = "done", ![id].steps = Append(@, "row"),
                                ![id].code = IF ok THEN "OK" ELSE "Internal"]
    /\ UNCHANGED <<points, nextId, task, call, hits, pipeVars, sideVars>>

\* processURL: the first status write
ProcessURLStart(d, dbOk) ==
    /\ Running
    /\ task[d].pc = "url_processing"
    /\ LET doc == [task[d].doc EXCEPT !.status = "PROCESSING"]
       IN /\ documents' = Update(d, doc, dbOk)
          /\ task' = [task EXCEPT ![d].doc = doc, ![d].pc = "url_fetch"]
    /\ UNCHANGED <<document_chunks, points, nextId, call, del, hits, pipeVars, sideVars>>

\* processURL: the fetch; a failed fetch marks the document FAILED. After a
\* fetch that succeeded the body is kept as the content and stripHTML is
\* called on it; the first statement of stripHTML is
\* regexp.MustCompile of a pattern with the backreference \1, which the regexp
\* package rejects: the goroutine panics with nothing to recover it, and the
\* process exits
ProcessURLFetch(d, fetchOk, body, dbOk) ==
    /\ Running
    /\ task[d].pc = "url_fetch"
    /\ IF ~fetchOk
       THEN LET doc == Failed(task[d].doc, "failed to fetch URL")
            IN /\ documents' = Update(d, doc, dbOk)
               /\ task' = [task EXCEPT ![d].doc = doc,
                                       ![d].pc = ReturnAfterFailure("processing")]
       ELSE /\ task' = [task EXCEPT ![d].content = body, ![d].pc = "panic"]
            /\ UNCHANGED documents
    /\ UNCHANGED <<document_chunks, points, nextId, call, del, hits, pipeVars, sideVars>>

\* processDocument: the first status write
ProcessDocumentStart(d, dbOk) ==
    /\ Running
    /\ task[d].pc = "processing"
    /\ LET doc == [task[d].doc EXCEPT !.status = "PROCESSING"]
       IN /\ documents' = Update(d, doc, dbOk)
          /\ task' = [task EXCEPT ![d].doc = doc, ![d].pc = "chunks"]
    /\ UNCHANGED <<document_chunks, points, nextId, call, del, hits, pipeVars, sideVars>>

\* processDocument: chunk the content and store the chunk rows
ProcessDocumentChunks(d, chunksOk, dbOk) ==
    /\ Running
    /\ task[d].pc = "chunks"
    /\ LET n == chunkFixed(task[d].content) IN
       IF IsBlank(task[d].content)
       THEN LET doc == Failed(task[d].doc, "chunking failed")
            IN /\ documents' = Update(d, doc, dbOk)
               /\ task' = [task EXCEPT ![d].doc = doc,
                                       ![d].pc = ReturnAfterFailure("upsert")]
               /\ UNCHANGED document_chunks
       ELSE IF ~CreateChunksOk(d, chunksOk)
       THEN LET doc == Failed(task[d].doc, "failed to store chunks")
            IN /\ documents' = Update(d, doc, dbOk)
               /\ task' = [task EXCEPT ![d].doc = doc,
                                       ![d].chunks = n,
                                       ![d].pc = ReturnAfterFailure("upsert")]
               /\ UNCHANGED document_chunks
       ELSE /\ document_chunks' = document_chunks \cup ChunkRows(d, n)
            /\ task' = [task EXCEPT ![d].chunks = n, ![d].pc = "upsert"]
            /\ UNCHANGED documents
    /\ UNCHANGED <<points, nextId, call, del, hits, pipeVars, sideVars>>

\* processDocument: embed the chunks and upsert their vectors
ProcessDocumentUpsert(d, embedOk, vecOk, dbOk) ==
    /\ Running
    /\ task[d].pc = "upsert"
    /\ IF ~embedOk \/ ~vecOk
       THEN LET doc == Failed(task[d].doc, IF ~embedOk THEN "embedding failed"
                                           ELSE "vector storage failed")
            IN /\ documents' = Update(d, doc, dbOk)
               /\ task' = [task EXCEPT ![d].doc = doc,
                                       ![d].pc = ReturnAfterFailure("ready")]
               /\ UNCHANGED points
       ELSE /\ points' = points \cup UpsertPoints(task[d].doc.tenant_id, d, task[d].chunks)
            /\ task' = [task EXCEPT ![d].pc = "ready"]
            /\ UNCHANGED documents
    /\ UNCHANGED <<document_chunks, nextId, call, del, hits, pipeVars, sideVars>>

\* processDocument: the READY write (tenantRepo.UpdateUsage is a no-op)
ProcessDocumentReady(d, dbOk) ==
    /\ Running
    /\ task[d].pc = "ready"
    /\ LET doc == [task[d].doc EXCEPT !.status = "READY",
                                      !.chunk_count = task[d].chunks]
       IN /\ documents' = Update(d, doc, dbOk)
          /\ task' = [task EXCEPT ![d].doc = doc, ![d].pc = "done"]
    /\ UNCHANGED <<document_chunks, points, nextId, call, del, hits, pipeVars, sideVars>>

\* the vector search of Query, QueryStream and Retrieve for a tenant: every
\* result is a point of the collection searched
Search(tenantID) ==
    /\ Running
    /\ hits' = [tenant |-> tenantID, docs |-> {p[2] : p \in SearchCollection(tenantID)}]
    /\ UNCHANGED <<documents, document_chunks, points, nextId, task, call, del, pipeVars, sideVars>>

\* the steps of processDocument; Db is the set of answers the metadata store
\* may give to a status write (TRUE: the write is carried out)
DocStep(Db) ==
    \/ \E d \in DocIds, ok \in Db : ProcessDocumentStart(d, ok)
    \/ \E d \in DocIds, k \in BOOLEAN, ok \in Db : ProcessDocumentChunks(d, k, ok)
    \/ \E d \in DocIds, e \in BOOLEAN, v \in BOOLEAN, ok \in Db :
           ProcessDocumentUpsert(d, e, v, ok)
    \/ \E d \in DocIds, ok \in Db : ProcessDocumentReady(d, ok)

\* the steps of processURL; Pages is the set of bodies the fetch may return
UrlStep(Db, Pages) ==
    \/ \E d \in DocIds, ok \in Db : ProcessURLStart(d, ok)
    \/ \E d \in DocIds, f \in BOOLEAN, b \in Pages, ok \in Db : ProcessURLFetch(d, f, b, ok)

\* the steps of a DeleteDocument call after its lookup
DeleteStep ==
    \/ \E d \in DocIds, ok \in BOOLEAN : DeleteDocumentVectors(d, ok)
    \/ \E d \in DocIds, ok \in BOOLEAN : DeleteDocumentChunks(d, ok)
    \/ \E d \in DocIds, ok \in BOOLEAN : DeleteDocumentRow(d, ok)

\* no client call is in flight
ClientIdle ==
    /\ \A c \in Calls : call[c].pc \in {"idle", "done"}
    /\ \A d \in DocIds : del[d].pc \in {"idle", "done"}

\* Spec: concurrent clients of one tenant, every external call may fail
Next ==
    \/ \E c \in Calls, s \in {<<"a">>}, x \in Contents : IngestDocument(c, "t1", s, x)
    \/ \E c \in Calls : IngestDocumentCreate(c)
    \/ \E c \in Calls, u \in Urls : IngestURL(c, "t1", u)
    \/ \E d \in DocIds : DeleteDocument(d)
    \/ DeleteStep
    \/ UrlStep(BOOLEAN, Bodies)
    \/ DocStep(BOOLEAN)

Spec == Init /\ [][Next]_vars

\* SpecLife: the life of documents that nobody deletes
NextLife ==
    \/ \E c \in Calls, s \in {<<"a">>}, x \in Contents \ {<<>>} :
           IngestDocument(c, "t1", s, x)
    \/ \E c \in Calls : IngestDocumentCreate(c)
    \/ \E c \in Calls, u \in Urls : IngestURL(c, "t1", u)
    \/ UrlStep(BOOLEAN, Bodies)
    \/ DocStep(BOOLEAN)

SpecLife == Init /\ [][NextLife]_vars

\* SpecSeq: one client making its calls one after the other, the background
\* tasks of the documents it ingested running beside it
NextSeq ==
    \/ \E c \in Calls, s \in {<<"a">>}, x \in Contents :
           ClientIdle /\ IngestDocument(c, "t1", s, x)
    \/ \E c \in Calls : IngestDocumentCreate(c)
    \/ \E d \in DocIds : ClientIdle /\ DeleteDocument(d)
    \/ DeleteStep
    \/ DocStep(BOOLEAN)

SpecSeq == Init /\ [][NextSeq]_vars

\* SpecIso: two tenants ingesting and searching
NextIso ==
    \/ \E c \in Calls, t \in Tenants, s \in {<<"a">>}, x \in {<<"b">>} :
           IngestDocument(c, t, s, x)
    \/ \E c \in Calls : IngestDocumentCreate(c)
    \/ \E c \in Calls, t \in Tenants, u \in Urls : IngestURL(c, t, u)
    \/ \E t \in Tenants : Search(t)
    \/ UrlStep({TRUE}, {<<"b">>})
    \/ DocStep({TRUE})

SpecIso == Init /\ [][NextIso]_vars

\* ------------------------------------------------------------------------
\* Query pipeline of RAGService.Query and QueryStream.  A word is a sequence
\* of characters, a content a sequence of words, a hit a record of a content
\* and a score.
\* ------------------------------------------------------------------------
HitScores == {4, 9}

HitContents ==
    {<<<<"c", "a", "t">>, <<"d", "o", "g">>, <<"f", "o", "x">>>>,
     <<<<"c", "a", "t">>, <<"d", "o", "g">>, <<"f", "o", "x">>, <<"o", "w", "l">>>>,
     <<<<"o", "f">>, <<"e", "e", "l">>>>}

Hits == [content : HitContents, score : HitScores]

\* the matching points of a collection, best first, as the engine ranks them
Collections ==
    UNION {{col \in [1..n -> Hits] :
               \A i \in 1..(n - 1) : col[i].score >= col[i + 1].score} : n \in 0..MaxHits}

Take(results, n) == SubSeq(results, 1, IF Len(results) > n THEN n ELSE Len(results))

\* buildQueryOptions: the request option if positive, else the tenant's value
\* if positive, else the default
buildQueryOptions(tenantTopK, tenantMinScore, optTopK, optMinScore) ==
    [topK |-> IF optTopK > 0 THEN optTopK
              ELSE IF tenantTopK <= 0 THEN DefaultTopK ELSE tenantTopK,
     minScore |-> IF optMinScore > 0 THEN optMinScore
                  ELSE IF tenantMinScore <= 0 THEN DefaultMinScore ELSE tenantMinScore]

\* QdrantStore.Search: the engine applies the score threshold, then the limit
VectorSearch(collection, topK, minScore) ==
    Take(SelectSeq(collection, LAMBDA h : h.score >= minScore), topK)

\* QdrantStore.HybridSearch: the engine applies the limit to the fused list,
\* the store filters the answer by minScore
HybridSearch(collection, topK, minScore) ==
    SelectSeq(Take(collection, topK), LAMBDA h : h.score >= minScore)

\* tokenize: the set of words longer than two characters
tokenize(content) == {content[i] : i \in {j \in 1..Len(content) : Len(content[j]) > ShortToken}}

\* jaccardSimilarity, in tenths rounded down
jaccardSimilarity(set1, set2) ==
    IF set1 = {} /\ set2 = {} THEN ScoreOne
    ELSE IF set1 = {} \/ set2 = {} THEN 0
    ELSE (ScoreOne * Cardinality(set1 \cap set2)) \div
         (Cardinality(set1) + Cardinality(set2) - Cardinality(set1 \cap set2))

\* a deduplication that drops a hit when any earlier hit is similar to it,
\* kept or not
dropAllSimilar(results, threshold) ==
    LET keep == {j \in 1..Len(results) :
                    \A i \in 1..(j - 1) :
                        jaccardSimilarity(tokenize(results[i].content),
                                          tokenize(results[j].content)) < threshold}
    IN [k \in 1..Cardinality(keep) |->
           results[CHOOSE j \in keep : Cardinality({i \in keep : i <= j}) = k]]

RECURSIVE deduplicateResults(_, _)
\* a hit is dropped when an earlier kept hit is similar to it
deduplicateResults(results, threshold) ==
    IF Len(results) <= 1 THEN results
    ELSE <<Head(results)>> \o
         deduplicateResults(
             SelectSeq(Tail(results),
                       LAMBDA h : jaccardSimilarity(tokenize(Head(results).content),
                                                    tokenize(h.content)) < threshold),
             threshold)

\* what the reranker's LLM call may give: an error, a text that is no JSON, or
\* JSON scores for some of the documents ("scores" maps a doc_index to a score)
RawScores == {-2, 3, 14}

RerankResponses(numResults) ==
    {[kind |-> "error", scores |-> <<>>], [kind |-> "text", scores |-> <<>>]} \cup
    {[kind |-> "json", scores |-> f] :
        f \in UNION {[S -> RawScores] : S \in SUBSET (0..(numResults - 1))}}

\* a parse that takes the scores as the LLM gave them
parseUnclamped(response, numResults) ==
    [i \in 0..(numResults - 1) |->
        IF i \in DOMAIN response.scores THEN response.scores[i] ELSE MissingRerankScore]

\* parseRerankResponse: scores clamped to [0, 1], 0.5 for a missing entry
parseRerankResponse(response, numResults) ==
    [i \in 0..(numResults - 1) |->
        IF i \in DOMAIN response.scores
        THEN IF response.scores[i] < 0 THEN 0
             ELSE IF response.scores[i] > ScoreOne THEN ScoreOne
             ELSE response.scores[i]
        ELSE MissingRerankScore]

\* ScoredResult of a hit
Scored(hit, rerankerScore) ==
    [content |-> hit.content, score |-> hit.score, rerankerScore |-> rerankerScore]

\* fallbackScoring: the hits with their vector scores, cut to topK
fallbackScoring(results, topK) ==
    Take([i \in 1..Len(results) |-> Scored(results[i], results[i].score)], topK)

\* the orders sort.Slice may leave the scored results in: any order that is
\* descending in rerankerScore
SortedOrders(scored) ==
    {f \in [1..Len(scored) -> 1..Len(scored)] :
        /\ \A i, j \in 1..Len(scored) : i # j => f[i] # f[j]
        /\ \A i, j \in 1..Len(scored) :
              i < j => scored[f[i]].rerankerScore >= scored[f[j]].rerankerScore}

\* LLMReranker.Rerank on a non-empty list: err, or the scored results
Rerank(results, topK, response, order) ==
    LET k == IF Len(results) <= topK THEN Len(results) ELSE topK
        scores == parseRerankResponse(response, Len(results))
        scored == [i \in 1..Len(results) |-> Scored(results[i], scores[i - 1])]
    IN IF response.kind = "error" THEN [err |-> TRUE, results |-> <<>>]
       ELSE IF response.kind = "text"
       THEN [err |-> FALSE, results |-> fallbackScoring(results, k)]
       ELSE [err |-> FALSE,
             results |-> Take([i \in 1..Len(scored) |-> scored[order[i]]], k)]

\* no cut at all
NoLimit(results, topK) == results

\* the cut of the source list to topK
Limit(results, topK) == IF Len(results) > topK THEN SubSeq(results, 1, topK) ELSE results

\* the requests and tenant configurations a query may come with
QueryInputs ==
    [pc : {"search"},
     tenantTopK : {0, 1}, tenantMinScore : {0, 4},
     optTopK : {0, 2}, optMinScore : {0, 8},
     useHybrid : BOOLEAN, rerankerEnabled : BOOLEAN,
     collection : Collections,
     op : {"none"}, limit : {0},
     topK : {0}, minScore : {0}, results : {<<>>}, candidates : {<<>>},
     rerank : {"none"}]

InitQuery ==
    /\ DocInit
    /\ SideIdle
    /\ query \in QueryInputs
    /\ qs = NoQuery
    /\ gen = NoQuery
    /\ events = <<>>

\* Query / QueryStream: the options are resolved and the store is searched for
\* three times topK candidates
QuerySearch ==
    /\ query.pc = "search"
    /\ LET options == buildQueryOptions(query.tenantTopK, query.tenantMinScore,
                                        query.optTopK, query.optMinScore)
       IN query' = [query EXCEPT
              !.pc = "deduplicate",
              !.op = "Query",
              !.limit = options.topK * Oversampling,
              !.topK = options.topK,
              !.minScore = options.minScore,
              !.results =
                  IF query.useHybrid
                  THEN HybridSearch(query.collection, options.topK * Oversampling,
                                    options.minScore)
                  ELSE VectorSearch(query.collection, options.topK * Oversampling,
                                    options.minScore)]
    /\ UNCHANGED <<docVars, sideVars, qs, gen, events>>

\* Query / QueryStream: similar candidates are dropped
QueryDeduplicate ==
    /\ query.pc = "deduplicate"
    /\ query' = [query EXCEPT
           !.pc = "rerank",
           !.results = deduplicateResults(query.results, DedupThreshold),
           !.candidates = deduplicateResults(query.results, DedupThreshold)]
    /\ UNCHANGED <<docVars, sideVars, qs, gen, events>>

\* Query / QueryStream: the candidates are reranked when the tenant has the
\* reranker enabled; a reranker error keeps the candidates as they are
QueryRerank(response, order) ==
    /\ query.pc = "rerank"
    /\ IF query.rerankerEnabled /\ Len(query.results) > 0
       THEN LET reranked == Rerank(query.results, query.topK, response, order)
            IN IF ~reranked.err /\ Len(reranked.results) > 0
               THEN query' = [query EXCEPT
                        !.pc = "limit",
                        !.rerank = IF response.kind = "json" THEN "scored" ELSE "fallback",
                        !.results = [i \in 1..Len(reranked.results) |->
                                        [content |-> reranked.results[i].content,
                                         score |-> reranked.results[i].rerankerScore]]]
               ELSE query' = [query EXCEPT !.pc = "limit", !.rerank = "error"]
       ELSE query' = [query EXCEPT !.pc = "limit"]
    /\ UNCHANGED <<docVars, sideVars, qs, gen, events>>

\* Query / QueryStream: the list is cut to topK; it is the response's sources
QueryLimit ==
    /\ query.pc = "limit"
    /\ query' = [query EXCEPT !.pc = "done", !.results = Limit(query.results, query.topK)]
    /\ UNCHANGED <<docVars, sideVars, qs, gen, events>>

\* the document_ids a Retrieve request may filter by; a hit's content stands
\* for the document it comes from, and no ids means no filter
DocumentIdFilters == {{}, {<<<<"c", "a", "t">>, <<"d", "o", "g">>, <<"f", "o", "x">>>>}}

\* Retrieve: topK and minScore are the tenant's values, or the request's when
\* positive; the store is searched with them and the hits are filtered by
\* document_ids
Retrieve(documentIds) ==
    /\ query.pc = "search"
    /\ LET topK == IF query.optTopK > 0 THEN query.optTopK ELSE query.tenantTopK
           minScore == IF query.optMinScore > 0 THEN query.optMinScore
                       ELSE query.tenantMinScore
           searchResults == VectorSearch(query.collection, topK, minScore)
       IN query' = [query EXCEPT
              !.pc = "done",
              !.op = "Retrieve",
              !.limit = topK,
              !.topK = topK,
              !.minScore = minScore,
              !.results = IF documentIds # {}
                          THEN SelectSeq(searchResults,
                                         LAMBDA h : h.content \in documentIds)
                          ELSE searchResults]
    /\ UNCHANGED <<docVars, sideVars, qs, gen, events>>

NextQuery ==
    \/ QuerySearch
    \/ \E documentIds \in DocumentIdFilters : Retrieve(documentIds)
    \/ QueryDeduplicate
    \/ /\ query.pc = "rerank"
       /\ \E response \in RerankResponses(Len(query.results)) :
             \E order \in SortedOrders(
                     [i \in 1..Len(query.results) |->
                         Scored(query.results[i],
                                parseRerankResponse(response, Len(query.results))[i - 1])]) :
                 QueryRerank(response, order)
    \/ QueryLimit

SpecQuery == InitQuery /\ [][NextQuery]_vars

\* ------------------------------------------------------------------------
\* QueryStream and the LLM client's GenerateStream

\* StreamChunk
NoChunk == [token |-> "", done |-> FALSE, error |-> FALSE]

\* what a read of the LLM's response body may give: a JSON line with a token
\* (empty or not) and the done flag, a blank line, a line that is no JSON, a
\* read error, the end of the body; "cancelled" is the context found done
StreamLines ==
    {[kind |-> "json", token |-> t, done |-> d] : t \in {"", "a"}, d \in BOOLEAN} \cup
    {[kind |-> k, token |-> "", done |-> FALSE] :
        k \in {"blank", "garbage", "readerr", "eof", "cancelled"}}

InitStream ==
    /\ DocInit
    /\ SideIdle
    /\ query = NoQuery
    /\ qs \in [pc : {"sources"}, n : 0..MaxHits, sent : {0}, code : {""},
               llmError : {FALSE}]
    /\ gen = [pc |-> "none", lines |-> 0, chunk |-> NoChunk]
    /\ events = <<>>

\* QueryStream: one source event per search result; a failed send ends the call
QueryStreamSource(sendOk) ==
    /\ qs.pc = "sources"
    /\ qs.sent < qs.n
    /\ IF sendOk
       THEN /\ events' = Append(events, "source")
            /\ qs' = [qs EXCEPT !.sent = @ + 1]
       ELSE /\ qs' = [qs EXCEPT !.pc = "returned", !.code = "Unavailable"]
            /\ UNCHANGED events
    /\ UNCHANGED <<docVars, sideVars, query, gen>>

\* QueryStream calls GenerateStream: the request is made and the reader
\* goroutine started, or the call ends with Internal
GenerateStream(startOk) ==
    /\ qs.pc = "sources"
    /\ qs.sent = qs.n
    /\ IF startOk
       THEN /\ qs' = [qs EXCEPT !.pc = "tokens"]
            /\ gen' = [gen EXCEPT !.pc = "read"]
       ELSE /\ qs' = [qs EXCEPT !.pc = "returned", !.code = "Internal"]
            /\ UNCHANGED gen
    /\ UNCHANGED <<docVars, sideVars, query, events>>

\* the reader goroutine of GenerateStream reads a line: the end of the body
\* closes the channel, a failure becomes an error chunk, a blank line is
\* skipped, a JSON line becomes a chunk to send
GenerateStreamRead(line) ==
    /\ gen.pc = "read"
    /\ gen.lines < MaxLines \/ line.kind \in {"eof", "readerr", "cancelled"}
    /\ gen' =
          IF line.kind = "eof" THEN [gen EXCEPT !.pc = "closed"]
          ELSE IF line.kind \in {"readerr", "garbage", "cancelled"}
          THEN [gen EXCEPT !.pc = "send",
                           !.chunk = [token |-> "", done |-> TRUE, error |-> TRUE]]
          ELSE IF line.kind = "blank" THEN [gen EXCEPT !.lines = @ + 1]
          ELSE [gen EXCEPT !.pc = "send", !.lines = @ + 1,
                           !.chunk = [token |-> line.token, done |-> line.done,
                                      error |-> FALSE]]
    /\ UNCHANGED <<docVars, sideVars, query, qs, events>>

\* the reader goroutine waits in the select with a chunk to send after
\* QueryStream has returned and the stream's context is done: it takes the
\* ctx.Done case, whose send of an error chunk has no select around it
GenerateStreamCancelled ==
    /\ gen.pc = "send"
    /\ ~gen.chunk.error
    /\ qs.pc = "returned"
    /\ gen' = [gen EXCEPT !.chunk = [token |-> "", done |-> TRUE, error |-> TRUE]]
    /\ UNCHANGED <<docVars, sideVars, query, qs, events>>

\* QueryStream goes on with the token loop after an error event
ContinueAfterStreamError == "tokens"

\* QueryStream returns after an error event
AfterStreamError == "returned"

\* QueryStream takes a chunk from the channel: an error chunk becomes the error
\* event and ends the call, a non-empty token becomes a token event, an empty
\* token is passed over; the goroutine returns after an error or done chunk
QueryStreamReceive(sendOk) ==
    /\ qs.pc = "tokens"
    /\ gen.pc = "send"
    /\ gen' = [gen EXCEPT !.pc = IF gen.chunk.error \/ gen.chunk.done
                                 THEN "closed" ELSE "read",
                          !.chunk = NoChunk]
    /\ IF gen.chunk.error
       THEN IF sendOk
            THEN /\ events' = Append(events, "error")
                 /\ qs' = [qs EXCEPT !.pc = AfterStreamError, !.code = "OK",
                                     !.llmError = TRUE]
            ELSE /\ qs' = [qs EXCEPT !.pc = "returned", !.code = "Unavailable",
                                     !.llmError = TRUE]
                 /\ UNCHANGED events
       ELSE IF gen.chunk.token # ""
       THEN IF sendOk
            THEN /\ events' = Append(events, "token")
                 /\ UNCHANGED qs
            ELSE /\ qs' = [qs EXCEPT !.pc = "returned", !.code = "Unavailable"]
                 /\ UNCHANGED events
       ELSE UNCHANGED <<qs, events>>
    /\ UNCHANGED <<docVars, sideVars, query>>

\* QueryStream finds the channel closed: the metadata event ends the stream
QueryStreamEnd(sendOk) ==
    /\ qs.pc = "tokens"
    /\ gen.pc = "closed"
    /\ IF sendOk
       THEN /\ events' = Append(events, "metadata")
            /\ qs' = [qs EXCEPT !.pc = "returned", !.code = "OK"]
       ELSE /\ qs' = [qs EXCEPT !.pc = "returned", !.code = "Unavailable"]
            /\ UNCHANGED events
    /\ UNCHANGED <<docVars, sideVars, query, gen>>

NextStream ==
    \/ \E sendOk \in BOOLEAN : QueryStreamSource(sendOk)
    \/ \E startOk \in BOOLEAN : GenerateStream(startOk)
    \/ \E line \in StreamLines : GenerateStreamRead(line)
    \/ \E sendOk \in BOOLEAN : QueryStreamReceive(sendOk)
    \/ \E sendOk \in BOOLEAN : QueryStreamEnd(sendOk)
    \/ GenerateStreamCancelled

SpecStream == InitStream /\ [][NextStream]_vars

\* the goroutines are scheduled: a step that can be taken is taken
SpecStreamFair == SpecStream /\ WF_vars(NextStream)

\* ------------------------------------------------------------------------
\* TenantService: CreateTenant and UpdateTenant

\* the server's defaults for tenant configurations (sizes in words, min_score
\* in hundredths)
ServerChunkOverlap == 50
ServerTopK == 4
ServerMinScore == 35
DefaultTargetSize == 512
DefaultMaxSize == 1024
DefaultOverlap == 50
HistoryWindow == 10

\* embedder.GetModelConfig: the chunk limits of the embedding model
GetModelConfig(modelName) ==
    IF modelName = "nomic-embed-text" THEN [MaxChunkWords |-> 512, TargetChunkWords |-> 256]
    ELSE IF modelName = "all-minilm" THEN [MaxChunkWords |-> 150, TargetChunkWords |-> 100]
    ELSE [MaxChunkWords |-> 256, TargetChunkWords |-> 128]

\* the TenantConfig messages of requests; present = FALSE is no config at all
ProtoConfigs ==
    [present : {TRUE}, EmbeddingModel : {"", "all-minilm"}, LlmModel : {""},
     TopK : {0, 2}, MinScore : {0, 150},
     Method : {"", "fixed", "bogus"}, TargetSize : {0, 40, 600},
     MaxSize : {0, 120}, Overlap : {0, 300}] \cup
    [present : {FALSE}, EmbeddingModel : {""}, LlmModel : {""}, TopK : {0},
     MinScore : {0}, Method : {""}, TargetSize : {0}, MaxSize : {0}, Overlap : {0}]

\* mergeConfig: the fields of the request that are set replace the existing ones
mergeConfig(existing, protoConfig) ==
    [EmbeddingModel |-> IF protoConfig.EmbeddingModel # "" THEN protoConfig.EmbeddingModel
                        ELSE existing.EmbeddingModel,
     LLMModel |-> IF protoConfig.LlmModel # "" THEN protoConfig.LlmModel
                  ELSE existing.LLMModel,
     TopK |-> IF protoConfig.TopK > 0 THEN protoConfig.TopK ELSE existing.TopK,
     MinScore |-> IF protoConfig.MinScore > 0 THEN protoConfig.MinScore
                  ELSE existing.MinScore,
     Method |-> IF protoConfig.Method # "" THEN protoConfig.Method ELSE existing.Method,
     TargetSize |-> IF protoConfig.TargetSize > 0 THEN protoConfig.TargetSize
                    ELSE existing.TargetSize,
     MaxSize |-> IF protoConfig.MaxSize > 0 THEN protoConfig.MaxSize ELSE existing.MaxSize,
     Overlap |-> IF protoConfig.Overlap > 0 THEN protoConfig.Overlap ELSE existing.Overlap]

\* buildTenantConfig: the server's defaults, the chunk limits of the embedding
\* model, and over them the fields of the request that are set
buildTenantConfig(protoConfig) ==
    LET embeddingModel == IF protoConfig.present /\ protoConfig.EmbeddingModel # ""
                          THEN protoConfig.EmbeddingModel ELSE "nomic-embed-text"
        modelCfg == GetModelConfig(embeddingModel)
        config == [EmbeddingModel |-> embeddingModel, LLMModel |-> "llama3.2",
                   TopK |-> ServerTopK, MinScore |-> ServerMinScore,
                   Method |-> "semantic",
                   TargetSize |-> modelCfg.TargetChunkWords,
                   MaxSize |-> modelCfg.MaxChunkWords,
                   Overlap |-> ServerChunkOverlap]
    IN IF ~protoConfig.present THEN config
       ELSE [mergeConfig(config, protoConfig) EXCEPT !.EmbeddingModel = embeddingModel]

\* validateTenantConfig returns nil
validateTenantConfig(config) ==
    /\ config.EmbeddingModel # ""
    /\ config.LLMModel # ""
    /\ config.Method = "" \/ config.Method \in {"fixed", "semantic", "sentence"}
    /\ config.TargetSize >= 0
    /\ config.MaxSize >= 0
    /\ ~(config.TargetSize > 0 /\ config.MaxSize > 0 /\ config.TargetSize > config.MaxSize)
    /\ config.Overlap >= 0
    /\ config.TopK >= 0
    /\ config.MinScore >= 0 /\ config.MinScore <= 100

\* the answer of a tenant call; before is the row the call found
TenantReply(op, code) == [pc |-> "done", op |-> op, code |-> code, before |-> tenant]

\* CreateTenant with the id of the one tenant
CreateTenant(name, protoConfig, dbOk) ==
    /\ IF name = ""
       THEN /\ treply' = TenantReply("CreateTenant", "InvalidArgument")
            /\ UNCHANGED tenant
       ELSE IF ~validateTenantConfig(buildTenantConfig(protoConfig))
       THEN /\ treply' = TenantReply("CreateTenant", "InvalidArgument")
            /\ UNCHANGED tenant
       ELSE IF tenant # NoTenant \/ ~dbOk
       THEN /\ treply' = TenantReply("CreateTenant", "Internal")
            /\ UNCHANGED tenant
       ELSE /\ treply' = TenantReply("CreateTenant", "OK")
            /\ tenant' = [name |-> name, Config |-> buildTenantConfig(protoConfig)]
    /\ UNCHANGED exceptTenant

\* UpdateTenant
UpdateTenant(name, protoConfig, dbOk) ==
    /\ IF tenant = NoTenant
       THEN /\ treply' = TenantReply("UpdateTenant", "NotFound")
            /\ UNCHANGED tenant
       ELSE LET newConfig == IF protoConfig.present
                             THEN mergeConfig(tenant.Config, protoConfig)
                             ELSE tenant.Config
            IN IF protoConfig.present /\ ~validateTenantConfig(newConfig)
               THEN /\ treply' = TenantReply("UpdateTenant", "InvalidArgument")
                    /\ UNCHANGED tenant
               ELSE IF ~dbOk
               THEN /\ treply' = TenantReply("UpdateTenant", "Internal")
                    /\ UNCHANGED tenant
               ELSE /\ treply' = TenantReply("UpdateTenant", "OK")
                    /\ tenant' = [name |-> IF name # "" THEN name ELSE tenant.name,
                                  Config |-> newConfig]
    /\ UNCHANGED exceptTenant

InitTenant == DocInit /\ PipeIdle /\ SideIdle

NextTenant ==
    \/ \E name \in {"", "n"}, protoConfig \in ProtoConfigs, dbOk \in BOOLEAN :
           CreateTenant(name, protoConfig, dbOk)
    \/ \E name \in {"", "n"}, protoConfig \in ProtoConfigs, dbOk \in BOOLEAN :
           UpdateTenant(name, protoConfig, dbOk)

SpecTenant == InitTenant /\ [][NextTenant]_vars

\* ------------------------------------------------------------------------
\* The conversation memory (memory.Store)

\* the roles AddUserMessage and AddAssistantMessage pass to addMessage
Roles == {"user", "assistant"}

\* the window sizes GetRecentHistory is asked for
RecentSizes == {0, 1, MaxMessages}

\* the last count elements of a slice: s[len(s)-count:]
LastOf(messages, count) ==
    SubSeq(messages, Len(messages) - count + 1, Len(messages))

\* a trim that keeps the head of the slice
KeepOldest(messages) ==
    IF Len(messages) > MaxMessages
    THEN SubSeq(messages, 1, MaxMessages)
    ELSE messages

\* the trim of addMessage: keep the recent ones
Trim(messages) ==
    IF Len(messages) > MaxMessages
    THEN LastOf(messages, MaxMessages)
    ELSE messages

\* an age measured from the creation of the conversation
AgeSinceCreation(conv, t) == t - conv.CreatedAt

\* now.Sub(conv.UpdatedAt)
Age(conv, t) == t - conv.UpdatedAt

\* the test of cleanup
Expired(conv, t) == Age(conv, t) > Ttl

RECURSIVE SumLen(_, _)
\* the number of messages the sessions of a set took since they were created
SumLen(log, ids) ==
    IF ids = {} THEN 0
    ELSE LET id == CHOOSE x \in ids : TRUE
         IN Len(log[id]) + SumLen(log, ids \ {id})

\* what a call of the store leaves behind for the properties
MemoryCall(op, sessionID, result) ==
    [pc |-> "done", op |-> op, sessionID |-> sessionID,
     before |-> IF op = "addMessage"
                THEN conversations[sessionID]
                ELSE NoConversation,
     result |-> result]

\* the body of addMessage: the message and the conversation it leaves
appendMessage(sessionID, role, content) ==
    LET conv == IF conversations[sessionID].exists
                THEN conversations[sessionID]
                ELSE [exists |-> TRUE, Messages |-> <<>>,
                      CreatedAt |-> now, UpdatedAt |-> 0]
        message == [Role |-> role, Content |-> content, Timestamp |-> now]
        messages == Append(conv.Messages, message)
    IN [message |-> message,
        conv |-> [conv EXCEPT !.Messages = Trim(messages), !.UpdatedAt = now]]

\* addMessage, the whole body under s.mu
addMessage(sessionID, role, content) ==
    /\ SumLen(appended, Sessions) < MaxAppends
    /\ LET added == appendMessage(sessionID, role, content)
       IN /\ conversations' = [conversations EXCEPT ![sessionID] = added.conv]
          /\ appended' = [appended EXCEPT ![sessionID] = Append(@, added.message)]
    /\ memOp' = MemoryCall("addMessage", sessionID, <<>>)
    /\ UNCHANGED <<now, exceptMemory>>

\* GetHistory: a copy of the messages, nil for a session the store lacks
GetHistory(sessionID) ==
    IF conversations[sessionID].exists
    THEN [isNil |-> FALSE, messages |-> conversations[sessionID].Messages]
    ELSE [isNil |-> TRUE, messages |-> <<>>]

\* GetRecentHistory
GetRecentHistory(sessionID, n) ==
    LET history == GetHistory(sessionID)
    IN IF history.isNil \/ Len(history.messages) <= n
       THEN history
       ELSE [history EXCEPT !.messages = LastOf(history.messages, n)]

\* a caller reads the whole history
ReadHistory(sessionID) ==
    /\ memOp' = MemoryCall("GetHistory", sessionID, GetHistory(sessionID))
    /\ UNCHANGED <<conversations, now, appended, exceptMemory>>

\* a caller reads the recent history
ReadRecentHistory(sessionID, n) ==
    /\ memOp' = MemoryCall("GetRecentHistory", sessionID, GetRecentHistory(sessionID, n))
    /\ UNCHANGED <<conversations, now, appended, exceptMemory>>

\* ClearSession
ClearSession(sessionID) ==
    /\ conversations[sessionID].exists
    /\ conversations' = [conversations EXCEPT ![sessionID] = NoConversation]
    /\ appended' = [appended EXCEPT ![sessionID] = <<>>]
    /\ memOp' = MemoryCall("ClearSession", sessionID, <<>>)
    /\ UNCHANGED <<now, exceptMemory>>

\* cleanup, one sweep of cleanupLoop, the whole body under s.mu
cleanup ==
    /\ conversations' = [id \in Sessions |->
           IF conversations[id].exists /\ Expired(conversations[id], now)
           THEN NoConversation
           ELSE conversations[id]]
    /\ appended' = [id \in Sessions |->
           IF conversations[id].exists /\ Expired(conversations[id], now)
           THEN <<>>
           ELSE appended[id]]
    /\ memOp' = MemoryCall("cleanup", "", <<>>)
    /\ UNCHANGED <<now, exceptMemory>>

\* time passes
Tick ==
    /\ now < MaxTime
    /\ now' = now + 1
    /\ memOp' = MemoryCall("Tick", "", <<>>)
    /\ UNCHANGED <<conversations, appended, exceptMemory>>

InitMemory == DocInit /\ PipeIdle /\ SideIdle

NextMemory ==
    \/ \E sessionID \in Sessions, role \in Roles : addMessage(sessionID, role, "a")
    \/ \E sessionID \in Sessions : ReadHistory(sessionID)
    \/ \E sessionID \in Sessions, n \in RecentSizes : ReadRecentHistory(sessionID, n)
    \/ \E sessionID \in Sessions : ClearSession(sessionID)
    \/ cleanup
    \/ Tick

SpecMemory == InitMemory /\ [][NextMemory]_vars

\* ------------------------------------------------------------------------
\* The status of Query, QueryStream and Retrieve

\* the tenant ids a request carries: none, not a UUID, a tenant, no tenant
TenantIds == {"", "not-a-uuid", "t1", "t9"}

\* uuid.Parse returns nil
ParseOk(tenantId) == tenantId \in {"t1", "t9"}

\* the rows of the tenants table
StoredTenants == {"t1"}

\* the error of TenantRepo.GetByID (scanTenant)
GetByID(tenantId, dbOk) ==
    IF ~dbOk THEN "failed to get tenant"
    ELSE IF tenantId \notin StoredTenants THEN "ErrNotFound"
    ELSE "nil"

\* the call has returned: its status, what went wrong, and the events sent
Returned(code, cause, sent) ==
    [rpc EXCEPT !.pc = "done", !.code = code, !.cause = cause, !.events = sent]

\* the checks of the request
RpcValidate ==
    /\ rpc.pc = "start"
    /\ rpc' = IF rpc.tenantId = ""
              THEN Returned("InvalidArgument", "malformed", <<>>)
              ELSE IF rpc.query = ""
              THEN Returned("InvalidArgument", "query", <<>>)
              ELSE IF ~ParseOk(rpc.tenantId)
              THEN Returned("InvalidArgument", "malformed", <<>>)
              ELSE [rpc EXCEPT !.pc = "tenant"]
    /\ UNCHANGED exceptRpc

\* the tenant is loaded
RpcGetTenant(dbOk) ==
    /\ rpc.pc = "tenant"
    /\ LET err == GetByID(rpc.tenantId, dbOk)
       IN rpc' = IF err # "nil"
                 THEN Returned("NotFound",
                               IF err = "ErrNotFound" THEN "missing" ELSE "store", <<>>)
                 ELSE [rpc EXCEPT !.pc = "embed"]
    /\ UNCHANGED exceptRpc

\* the query is embedded
RpcEmbed(ok) ==
    /\ rpc.pc = "embed"
    /\ rpc' = IF ~ok THEN Returned("Internal", "embed", <<>>)
              ELSE [rpc EXCEPT !.pc = "search"]
    /\ UNCHANGED exceptRpc

\* the vector store is searched, with or without sparse vectors
RpcSearch(ok) ==
    /\ rpc.pc = "search"
    /\ rpc' = IF ~ok THEN Returned("Internal", "search", <<>>)
              ELSE IF rpc.op = "QueryStream" THEN [rpc EXCEPT !.pc = "sources"]
              ELSE IF rpc.op = "Retrieve" THEN Returned("OK", "none", <<>>)
              ELSE [rpc EXCEPT !.pc = "generate"]
    /\ UNCHANGED exceptRpc

\* QueryStream sends the sources; a failed send is returned as it is
RpcSendSources(sendOk) ==
    /\ rpc.pc = "sources"
    /\ rpc' = IF ~sendOk THEN Returned("SendError", "send", <<>>)
              ELSE [rpc EXCEPT !.pc = "generate", !.events = <<"source">>]
    /\ UNCHANGED exceptRpc

\* Generate for Query, GenerateStream for QueryStream
RpcGenerate(ok) ==
    /\ rpc.pc = "generate"
    /\ rpc' = IF ~ok THEN Returned("Internal", "llm", rpc.events)
              ELSE IF rpc.op = "QueryStream" THEN [rpc EXCEPT !.pc = "tokens"]
              ELSE Returned("OK", "none", rpc.events)
    /\ UNCHANGED exceptRpc

\* the token loop of QueryStream ends: with an error chunk or with the
\* channel closed
RpcStreamEnd(chunkError, sendOk) ==
    /\ rpc.pc = "tokens"
    /\ rpc' = IF ~sendOk THEN Returned("SendError", "send", rpc.events)
              ELSE IF chunkError
              THEN Returned("OK", "llmstream", Append(rpc.events, "error"))
              ELSE Returned("OK", "none", Append(rpc.events, "metadata"))
    /\ UNCHANGED exceptRpc

InitRpc ==
    /\ DocInit /\ PipeIdle
    /\ tenant = NoTenant /\ treply = NoQuery /\ MemoryIdle
    /\ chunker = NoQuery /\ batch = NoQuery /\ session = NoQuery /\ pipeline = NoQuery
    /\ rpc \in [pc : {"start"}, op : {"Query", "QueryStream", "Retrieve"}, tenantId : TenantIds,
                 query : {"", "q"}, useHybrid : BOOLEAN,
                 code : {"none"}, cause : {"none"}, events : {<<>>}]

NextRpc ==
    \/ RpcValidate
    \/ \E dbOk \in BOOLEAN : RpcGetTenant(dbOk)
    \/ \E ok \in BOOLEAN : RpcEmbed(ok)
    \/ \E ok \in BOOLEAN : RpcSearch(ok)
    \/ \E sendOk \in BOOLEAN : RpcSendSources(sendOk)
    \/ \E ok \in BOOLEAN : RpcGenerate(ok)
    \/ \E chunkError \in BOOLEAN, sendOk \in BOOLEAN : RpcStreamEnd(chunkError, sendOk)

SpecRpc == InitRpc /\ [][NextRpc]_vars

\* ------------------------------------------------------------------------
\* The chunker (ingestion.Chunker)
\*
\* A text is a sequence of items: words, the fence of three backticks on
\* its own (written "fence"), and the
\* white space that is more than a blank: a line break and a blank line. Two neighbouring items that are not white space are
\* separated by one blank. "b." is a word that ends a sentence. The texts
\* carry no heading, table row or list marker, so parseIntoBlocks finds code
\* blocks and paragraphs in them and the header of every block is empty.

Fence == "fence"
Words == {"a", "b."}
Spaces == {"\n", "\n\n"}
Items == Words \cup {Fence} \cup Spaces

\* the placeholders of parseIntoBlocks, "___CODE_BLOCK_" + strconv.Itoa(i) + "___"
Placeholders == <<"___CODE_BLOCK_0___", "___CODE_BLOCK_1___", "___CODE_BLOCK_2___">>

\* the mark addSemanticOverlap puts in front of the overlap
OverlapMark == "[...]"

\* the start of the section line of flushChunk
SectionMark == "[Section:"

\* no white space at either end and no two white spaces in a row
WellSpaced(text) ==
    /\ text[1] \notin Spaces
    /\ text[Len(text)] \notin Spaces
    /\ \A k \in 1..(Len(text) - 1) : ~(text[k] \in Spaces /\ text[k + 1] \in Spaces)

\* texts that are blank after trimming
BlankTexts == {<<>>, <<"\n">>, <<" ", "\n\n">>}

\* the texts handed to Chunk
Texts ==
    {text \in UNION {[1..n -> Items] : n \in 1..MaxItems} : WellSpaced(text)}
        \cup BlankTexts

\* NewChunker: the defaults for what is not set
NewChunker(config) ==
    [Method |-> IF config.Method = "" THEN "semantic" ELSE config.Method,
     TargetSize |-> IF config.TargetSize <= 0 THEN DefaultTargetSize ELSE config.TargetSize,
     MaxSize |-> IF config.MaxSize <= 0 THEN DefaultMaxSize ELSE config.MaxSize,
     Overlap |-> IF config.Overlap < 0 THEN DefaultOverlap ELSE config.Overlap]

\* the configurations handed to NewChunker
ChunkerConfigs ==
    [Method : {"", "fixed", "sentence", "bogus"}, TargetSize : {0, 2},
     MaxSize : {0, 2}, Overlap : {-1, 0, 1}]

\* strings.Fields of a text of items: its words
WordList(text) == SelectSeq(text, LAMBDA item : item \notin Spaces)

RECURSIVE Join(_, _)
\* strings.Join; sep is a sequence of items, empty for a blank
Join(parts, sep) ==
    IF parts = <<>> THEN <<>>
    ELSE IF Len(parts) = 1 THEN parts[1]
    ELSE parts[1] \o sep \o Join(Tail(parts), sep)

\* the positions after from where the fence stands
FencesAfter(text, from) == {k \in (from + 1)..Len(text) : text[k] = Fence}

\* the lowest of a set of positions
Lowest(positions) == CHOOSE k \in positions : \A other \in positions : k <= other

RECURSIVE FindCodeBlocks(_, _)
\* codeBlockPattern.FindAllStringSubmatchIndex from position from on: a
\* fence followed by a line break, up to the next fence
FindCodeBlocks(text, from) ==
    IF from > Len(text) THEN <<>>
    ELSE IF /\ text[from] = Fence
            /\ from < Len(text)
            /\ text[from + 1] \in Spaces
            /\ FencesAfter(text, from) # {}
    THEN LET end == Lowest(FencesAfter(text, from))
         IN <<[start |-> from, end |-> end]>> \o FindCodeBlocks(text, end + 1)
    ELSE FindCodeBlocks(text, from + 1)

RECURSIVE ReplaceCodeBlocks(_, _, _, _)
\* processedContent: every code block replaced by its placeholder
ReplaceCodeBlocks(text, codeBlocks, i, from) ==
    IF i > Len(codeBlocks) THEN SubSeq(text, from, Len(text))
    ELSE SubSeq(text, from, codeBlocks[i].start - 1)
         \o <<Placeholders[i]>>
         \o ReplaceCodeBlocks(text, codeBlocks, i + 1, codeBlocks[i].end + 1)

RECURSIVE SplitParagraphs(_)
\* the split at blank lines
SplitParagraphs(text) ==
    IF \E k \in 1..Len(text) : text[k] = "\n\n"
    THEN LET at == Lowest({k \in 1..Len(text) : text[k] = "\n\n"})
         IN <<SubSeq(text, 1, at - 1)>> \o SplitParagraphs(SubSeq(text, at + 1, Len(text)))
    ELSE <<text>>

\* the block of one paragraph
BlockOf(para, text, codeBlocks) ==
    IF Len(para) = 1 /\ \E i \in 1..Len(codeBlocks) : para[1] = Placeholders[i]
    THEN LET i == CHOOSE j \in 1..Len(codeBlocks) : para[1] = Placeholders[j]
         IN [blockType |-> "code",
             content |-> SubSeq(text, codeBlocks[i].start, codeBlocks[i].end),
             header |-> ""]
    ELSE [blockType |-> "paragraph", content |-> para, header |-> ""]

RECURSIVE BlocksOf(_, _, _)
BlocksOf(paragraphs, text, codeBlocks) ==
    IF paragraphs = <<>> THEN <<>>
    ELSE LET para == TrimSpace(Head(paragraphs))
             rest == BlocksOf(Tail(paragraphs), text, codeBlocks)
         IN IF para = <<>> THEN rest
            ELSE <<BlockOf(para, text, codeBlocks)>> \o rest

\* parseIntoBlocks
parseIntoBlocks(content) ==
    LET codeBlocks == FindCodeBlocks(content, 1)
        processedContent == ReplaceCodeBlocks(content, codeBlocks, 1, 1)
    IN BlocksOf(SplitParagraphs(processedContent), content, codeBlocks)

\* the words after which splitSentences ends a sentence: they end with a
\* full stop and are in no list of abbreviations
SentenceEnds == {"b."}

RECURSIVE SplitSentencesFrom(_, _)
\* the loop of splitSentences: text is what is left, current what was read
\* since the last sentence
SplitSentencesFrom(text, current) ==
    IF text = <<>>
    THEN IF TrimSpace(current) # <<>> THEN <<TrimSpace(current)>> ELSE <<>>
    ELSE LET read == Append(current, Head(text))
         IN IF Head(text) \in SentenceEnds /\ TrimSpace(read) # <<>>
            THEN <<TrimSpace(read)>> \o SplitSentencesFrom(Tail(text), <<>>)
            ELSE SplitSentencesFrom(Tail(text), read)

\* splitSentences
splitSentences(text) == SplitSentencesFrom(TrimSpace(text), <<>>)

\* a chunk: its content and the metadata the properties read
NewChunk(content, index, method, containsCode) ==
    [Content |-> content, Index |-> index, method |-> method,
     contains_code |-> containsCode, has_overlap |-> FALSE]

\* the stride of chunkFixed and of splitLongSentence
Step(config) ==
    IF config.TargetSize - config.Overlap > 0 THEN config.TargetSize - config.Overlap
    ELSE IF config.TargetSize \div 2 > 0 THEN config.TargetSize \div 2
    ELSE 1

RECURSIVE Windows(_, _, _, _, _)
\* the loop of chunkFixed and of splitLongSentence: windows of TargetSize
\* words from the word after i on, numbered from index on
Windows(words, i, config, method, index) ==
    IF i >= Len(words) THEN <<>>
    ELSE LET end == IF i + config.TargetSize > Len(words) THEN Len(words)
                    ELSE i + config.TargetSize
             chunk == NewChunk(SubSeq(words, i + 1, end), index, method, FALSE)
         IN IF end >= Len(words) THEN <<chunk>>
            ELSE <<chunk>> \o Windows(words, i + Step(config), config, method, index + 1)

\* chunkFixed, the chunks
chunkFixedWindows(content, config) == Windows(WordList(content), 0, config, "fixed", 0)

\* splitLongSentence
splitLongSentence(sentence, config, startIndex) ==
    Windows(WordList(sentence), 0, config, "sentence", startIndex)

\* createSentenceChunk
createSentenceChunk(sentences, index) ==
    NewChunk(TrimSpace(Join(sentences, <<>>)), index, "sentence", FALSE)

RECURSIVE SumWords(_)
\* the words of a list of sentences
SumWords(sentences) ==
    IF sentences = <<>> THEN 0
    ELSE Len(WordList(Head(sentences))) + SumWords(Tail(sentences))

RECURSIVE OverlapFrom(_, _, _)
\* the loop of calculateSentenceOverlap: sentences i down to 1 are left
OverlapFrom(sentences, i, config) ==
    IF i >= 1 /\ SumWords(SubSeq(sentences, i + 1, Len(sentences))) < config.Overlap
    THEN OverlapFrom(sentences, i - 1, config)
    ELSE SubSeq(sentences, i + 1, Len(sentences))

\* calculateSentenceOverlap, the sentences kept
calculateSentenceOverlap(sentences, config) ==
    IF config.Overlap <= 0 \/ sentences = <<>> THEN <<>>
    ELSE OverlapFrom(sentences, Len(sentences), config)

RECURSIVE SentenceLoop(_, _, _, _)
\* the loop of chunkSentence and its last flush
SentenceLoop(sentences, config, chunks, currentSentences) ==
    IF sentences = <<>>
    THEN IF currentSentences # <<>>
         THEN Append(chunks, createSentenceChunk(currentSentences, Len(chunks)))
         ELSE chunks
    ELSE LET sentence == Head(sentences)
             sentenceWords == Len(WordList(sentence))
             full == /\ SumWords(currentSentences) + sentenceWords > config.MaxSize
                     /\ SumWords(currentSentences) > 0
             chunks1 == IF full
                        THEN Append(chunks, createSentenceChunk(currentSentences, Len(chunks)))
                        ELSE chunks
             current1 == IF full THEN calculateSentenceOverlap(currentSentences, config)
                         ELSE currentSentences
         IN IF sentenceWords > config.MaxSize
            THEN LET chunks2 == IF SumWords(current1) > 0
                                THEN Append(chunks1, createSentenceChunk(current1, Len(chunks1)))
                                ELSE chunks1
                     current2 == IF SumWords(current1) > 0 THEN <<>> ELSE current1
                 IN SentenceLoop(Tail(sentences), config,
                                 chunks2 \o splitLongSentence(sentence, config, Len(chunks2)),
                                 current2)
            ELSE LET current2 == Append(current1, sentence)
                 IN IF SumWords(current2) >= config.TargetSize
                    THEN SentenceLoop(Tail(sentences), config,
                                      Append(chunks1, createSentenceChunk(current2, Len(chunks1))),
                                      calculateSentenceOverlap(current2, config))
                    ELSE SentenceLoop(Tail(sentences), config, chunks1, current2)

\* chunkSentence
chunkSentence(content, config) ==
    SentenceLoop(splitSentences(content), config, <<>>, <<>>)

RECURSIVE BlockContents(_)
\* contentParts of flushChunk; the header of every block is empty, so no
\* section line is added
BlockContents(blocks) ==
    IF blocks = <<>> THEN <<>>
    ELSE <<Head(blocks).content>> \o BlockContents(Tail(blocks))

\* flushChunk of groupBlocksIntoChunks
flushChunk(chunks, currentBlocks) ==
    IF currentBlocks = <<>> THEN chunks
    ELSE Append(chunks,
                NewChunk(TrimSpace(Join(BlockContents(currentBlocks), <<"\n\n">>)),
                         Len(chunks), "semantic",
                         \E k \in 1..Len(currentBlocks) : currentBlocks[k].blockType = "code"))

RECURSIVE SplitLargeLoop(_, _, _, _)
\* the loop of splitLargeBlock and its last flush
SplitLargeLoop(sentences, config, chunks, currentSentences) ==
    IF sentences = <<>>
    THEN IF currentSentences # <<>>
         THEN Append(chunks, NewChunk(TrimSpace(Join(currentSentences, <<>>)),
                                      Len(chunks), "semantic", FALSE))
         ELSE chunks
    ELSE LET sentenceWords == Len(WordList(Head(sentences)))
             currentWords == SumWords(currentSentences)
         IN IF currentWords + sentenceWords > config.TargetSize /\ currentWords > 0
            THEN SplitLargeLoop(Tail(sentences), config,
                     Append(chunks, NewChunk(TrimSpace(Join(currentSentences, <<>>)),
                                             Len(chunks), "semantic", FALSE)),
                     <<Head(sentences)>>)
            ELSE SplitLargeLoop(Tail(sentences), config, chunks,
                                Append(currentSentences, Head(sentences)))

\* splitLargeBlock
splitLargeBlock(block, config) ==
    SplitLargeLoop(splitSentences(block.content), config, <<>>, <<>>)

\* the words of a list of blocks
BlockWords(blocks) == SumWords(BlockContents(blocks))

RECURSIVE GroupLoop(_, _, _, _)
\* the loop of groupBlocksIntoChunks and its last flush
GroupLoop(blocks, config, chunks, currentBlocks) ==
    IF blocks = <<>> THEN flushChunk(chunks, currentBlocks)
    ELSE LET block == Head(blocks)
             blockWords == Len(WordList(block.content))
             currentWords == BlockWords(currentBlocks)
             isAtomic == block.blockType \in {"code", "table"}
         IN IF blockWords > config.MaxSize
            THEN IF isAtomic
                 THEN GroupLoop(Tail(blocks), config,
                                flushChunk(flushChunk(chunks, currentBlocks), <<block>>), <<>>)
                 ELSE GroupLoop(Tail(blocks), config,
                                flushChunk(chunks, currentBlocks) \o splitLargeBlock(block, config),
                                <<>>)
            ELSE IF currentWords + blockWords > config.TargetSize /\ currentWords > 0
            THEN IF isAtomic /\ currentWords + blockWords <= config.MaxSize
                 THEN GroupLoop(Tail(blocks), config,
                                flushChunk(chunks, Append(currentBlocks, block)), <<>>)
                 ELSE GroupLoop(Tail(blocks), config,
                                flushChunk(chunks, currentBlocks), <<block>>)
            ELSE GroupLoop(Tail(blocks), config, chunks, Append(currentBlocks, block))

\* groupBlocksIntoChunks
groupBlocksIntoChunks(blocks, config) == GroupLoop(blocks, config, <<>>, <<>>)

\* the last count words of a chunk
LastWords(content, count) ==
    LET prevWords == WordList(content)
        overlapCount == IF count > Len(prevWords) THEN Len(prevWords) ELSE count
    IN SubSeq(prevWords, Len(prevWords) - overlapCount + 1, Len(prevWords))

\* addSemanticOverlap
addSemanticOverlap(chunks, config) ==
    IF Len(chunks) <= 1 THEN chunks
    ELSE [i \in 1..Len(chunks) |->
            IF i > 1 /\ config.Overlap > 0 /\ WordList(chunks[i - 1].Content) # <<>>
            THEN LET overlapWords == LastWords(chunks[i - 1].Content, config.Overlap)
                 IN IF overlapWords[1] # SectionMark
                    THEN [chunks[i] EXCEPT
                            !.Content = <<OverlapMark>> \o overlapWords \o <<"\n\n">> \o @,
                            !.has_overlap = TRUE]
                    ELSE chunks[i]
            ELSE chunks[i]]

\* the chunks numbered as they were appended
KeepIndex(chunks) == chunks

\* the last loop of chunkSemantic: the chunks numbered from 0 on
Renumber(chunks) == [i \in 1..Len(chunks) |-> [chunks[i] EXCEPT !.Index = i - 1]]

\* chunkSemantic
chunkSemantic(content, config) ==
    LET chunks == groupBlocksIntoChunks(parseIntoBlocks(content), config)
    IN Renumber(IF config.Overlap > 0 THEN addSemanticOverlap(chunks, config) ELSE chunks)

\* the switch of Chunk: the method that runs; an unknown one runs semantic
MethodOf(config) ==
    IF config.Method \in {"fixed", "sentence"} THEN config.Method ELSE "semantic"

\* the text is in and not blank, the chunks are not made yet
ChunkerReady(method) ==
    /\ chunker.pc = "input"
    /\ TrimSpace(chunker.text) # <<>>
    /\ MethodOf(chunker.config) = method

\* Chunk of a text that is blank after trimming: nil
ChunkBlank ==
    /\ chunker.pc = "input"
    /\ TrimSpace(chunker.text) = <<>>
    /\ chunker' = [chunker EXCEPT !.pc = "done"]
    /\ UNCHANGED exceptChunker

\* Chunk has returned the chunks
Chunked(chunks) == [chunker EXCEPT !.pc = "done", !.chunks = chunks]

\* Chunk with the fixed method
ChunkFixed ==
    /\ ChunkerReady("fixed")
    /\ chunker' = Chunked(chunkFixedWindows(TrimSpace(chunker.text), chunker.config))
    /\ UNCHANGED exceptChunker

\* Chunk with the sentence method
ChunkSentence ==
    /\ ChunkerReady("sentence")
    /\ chunker' = Chunked(chunkSentence(TrimSpace(chunker.text), chunker.config))
    /\ UNCHANGED exceptChunker

\* Chunk with the semantic method
ChunkSemantic ==
    /\ ChunkerReady("semantic")
    /\ chunker' = Chunked(chunkSemantic(TrimSpace(chunker.text), chunker.config))
    /\ UNCHANGED exceptChunker

InitChunker ==
    /\ DocInit /\ PipeIdle
    /\ tenant = NoTenant /\ treply = NoQuery /\ MemoryIdle /\ rpc = NoQuery
    /\ batch = NoQuery /\ session = NoQuery /\ pipeline = NoQuery
    /\ chunker \in [pc : {"input"}, text : Texts,
                     config : {NewChunker(config) : config \in ChunkerConfigs},
                     chunks : {<<>>}]

NextChunker == ChunkBlank \/ ChunkFixed \/ ChunkSentence \/ ChunkSemantic

SpecChunker == InitChunker /\ [][NextChunker]_vars

\* ------------------------------------------------------------------------
\* deduplicateResults on its own: the candidate lists a search can return

\* the contents of the hits, one of them a longer variant of another's variant
DedupContents ==
    HitContents \cup
    {<<<<"c", "a", "t">>, <<"d", "o", "g">>, <<"f", "o", "x">>, <<"o", "w", "l">>,
       <<"e", "l", "k">>>>}

\* the candidate lists, best first
DedupLists ==
    UNION {{list \in [1..n -> [content : DedupContents, score : HitScores]] :
               \A i \in 1..(n - 1) : list[i].score >= list[i + 1].score} :
           n \in 0..MaxHits}

\* Query after a search that returned the candidate list
InitDedup ==
    /\ DocInit
    /\ SideIdle
    /\ qs = NoQuery
    /\ gen = NoQuery
    /\ events = <<>>
    /\ \E list \in DedupLists :
          query = [pc |-> "deduplicate",
                   tenantTopK |-> 0, tenantMinScore |-> 0, optTopK |-> 0, optMinScore |-> 0,
                   useHybrid |-> FALSE, rerankerEnabled |-> FALSE,
                   collection |-> list,
                   op |-> "Query", limit |-> DefaultTopK * Oversampling,
                   topK |-> DefaultTopK, minScore |-> 0,
                   results |-> list, candidates |-> <<>>, rerank |-> "none"]

NextDedup == QueryDeduplicate

SpecDedup == InitDedup /\ [][NextDedup]_vars

\* ------------------------------------------------------------------------
\* Query and QueryStream with a session: the calls come one after the other,
\* retrieval has succeeded, and the memory is the one Store of the service

\* the session_id of a request, "" for none
SessionIds == Sessions \cup {""}

\* the query texts
QueryTexts == {"q1", "q2"}

\* how generation ends: Generate returns an answer or an error;
\* GenerateStream fails to start, yields an error chunk, or streams to the end
GenerationOutcomes(op) ==
    IF op = "Query" THEN {"answer", "llm_error"}
    ELSE {"answer", "start_error", "error_chunk"}

\* steps 3 and 4 of Query, 4 and 5 of QueryStream: the recent history is read
\* for the prompt and the user message is stored, both under the session_id
\* alone
SessionQuery(op, tenantID, sessionID, text) ==
    /\ session.pc \in {"idle", "done"}
    /\ session.count < MaxQueries
    /\ LET added == appendMessage(sessionID, "user", text)
           call1 == [session EXCEPT
                       !.pc = "generate", !.op = op, !.tenant = tenantID,
                       !.sessionID = sessionID, !.text = text,
                       !.count = @ + 1, !.failed = FALSE]
       IN IF sessionID # ""
          THEN /\ session' = [call1 EXCEPT
                      !.history = GetRecentHistory(sessionID, HistoryWindow).messages,
                      !.before = conversations[sessionID].Messages,
                      !.recorded[tenantID] = @ \cup {added.message}]
               /\ conversations' = [conversations EXCEPT ![sessionID] = added.conv]
               /\ appended' = [appended EXCEPT ![sessionID] = Append(@, added.message)]
          ELSE /\ session' = [call1 EXCEPT !.history = <<>>, !.before = <<>>]
               /\ UNCHANGED <<conversations, appended>>
    /\ UNCHANGED <<now, memOp, exceptSession>>

\* the LLM call and what follows it: the answer is stored as the assistant
\* message; a failed generation returns at once
SessionGenerate(outcome) ==
    /\ session.pc = "generate"
    /\ outcome \in GenerationOutcomes(session.op)
    /\ LET added == appendMessage(session.sessionID, "assistant", "r")
       IN IF outcome = "answer" /\ session.sessionID # ""
          THEN /\ session' = [session EXCEPT
                      !.pc = "done", !.failed = FALSE,
                      !.recorded[session.tenant] = @ \cup {added.message}]
               /\ conversations' = [conversations EXCEPT ![session.sessionID] = added.conv]
               /\ appended' = [appended EXCEPT ![session.sessionID] = Append(@, added.message)]
          ELSE /\ session' = [session EXCEPT !.pc = "done", !.failed = outcome # "answer"]
               /\ UNCHANGED <<conversations, appended>>
    /\ UNCHANGED <<now, memOp, exceptSession>>

InitSession ==
    /\ DocInit /\ PipeIdle
    /\ tenant = NoTenant /\ treply = NoQuery /\ MemoryIdle /\ rpc = NoQuery
    /\ chunker = NoQuery /\ batch = NoQuery /\ pipeline = NoQuery
    /\ session = [pc |-> "idle", op |-> "none", tenant |-> "", sessionID |-> "",
                  text |-> "", count |-> 0, failed |-> FALSE,
                  history |-> <<>>, before |-> <<>>,
                  recorded |-> [t \in Tenants |-> {}]]

NextSession ==
    \/ \E op \in {"Query", "QueryStream"}, tenantID \in Tenants,
          sessionID \in SessionIds, text \in QueryTexts :
              SessionQuery(op, tenantID, sessionID, text)
    \/ \E outcome \in {"answer", "llm_error", "start_error", "error_chunk"} :
              SessionGenerate(outcome)

SpecSession == InitSession /\ [][NextSession]_vars

\* ------------------------------------------------------------------------
\* The chunk rows of processDocument with their metadata: the row of the
\* document is the one IngestDocument created

\* the ids uuid.New can give; a new id differs from the ids in use
Uuids == {"u1", "u2", "u3"}

\* the contents of the documents
PipelineContents == {<<"b">>, <<" ">>, <<"b", " ", "b">>, <<" ", "b">>}

\* the metadata of an IngestDocument request
RequestMetadata ==
    {<<>>, [author |-> "x"], [document_id |-> "u1"], [document_id |-> "x", source |-> "y"]}

\* a key of a map is set
Put(metadata, key, value) ==
    [k \in DOMAIN metadata \cup {key} |-> IF k = key THEN value ELSE metadata[k]]

\* the keys of a map are added to another one where it has no such key
AddMissing(metadata, extra) ==
    [k \in DOMAIN metadata \cup DOMAIN extra |->
        IF k \in DOMAIN metadata THEN metadata[k] ELSE extra[k]]

\* Pipeline.ProcessWithMetadata: the chunks of the content, each with the
\* metadata of the chunker, the default metadata, the provided metadata, and
\* the document reference and the hash of the trimmed content; documentID is
\* the id the pipeline draws with uuid.New
ProcessWithMetadata(content, defaults, metadata, documentID) ==
    LET trimmed == TrimSpace(content)
        contentHash == hashContent(trimmed)
    IN IF trimmed = <<>>
       THEN [err |-> TRUE, chunks |-> <<>>]
       ELSE [err |-> FALSE,
             chunks |-> [i \in 1..chunkFixed(content) |->
                 [Index |-> i - 1,
                  Metadata |->
                      Put(Put(AddMissing(AddMissing([method |-> "fixed"], defaults),
                                         metadata),
                              "document_id", documentID),
                          "content_hash", contentHash)]]]

\* ChunksToDocumentChunks: the rows of the chunks under the id of the document
ChunksToDocumentChunks(chunks, documentID) ==
    [i \in 1..Len(chunks) |->
        [DocumentID |-> documentID, ChunkIndex |-> chunks[i].Index,
         Metadata |-> chunks[i].Metadata]]

\* processDocument: the pipeline runs on the content with the metadata of
\* the document
PipelineProcess(fresh) ==
    /\ pipeline.pc = "process"
    /\ fresh # pipeline.doc.ID
    /\ LET result == ProcessWithMetadata(pipeline.content,
                                         [source |-> pipeline.doc.Source, title |-> ""],
                                         pipeline.doc.Metadata, fresh)
       IN pipeline' = [pipeline EXCEPT
              !.pc = IF result.err THEN "failed" ELSE "store",
              !.chunks = result.chunks]
    /\ UNCHANGED exceptPipeline

\* processDocument: the chunks are converted and docRepo.CreateChunks stores
\* the rows
PipelineStore(dbOk) ==
    /\ pipeline.pc = "store"
    /\ pipeline' = [pipeline EXCEPT
           !.pc = IF dbOk THEN "stored" ELSE "failed",
           !.rows = IF dbOk
                    THEN ChunksToDocumentChunks(pipeline.chunks, pipeline.doc.ID)
                    ELSE <<>>]
    /\ UNCHANGED exceptPipeline

InitPipeline ==
    /\ DocInit /\ PipeIdle
    /\ tenant = NoTenant /\ treply = NoQuery /\ MemoryIdle /\ rpc = NoQuery
    /\ chunker = NoQuery /\ batch = NoQuery /\ session = NoQuery
    /\ \E id \in Uuids, source \in Sources, content \in PipelineContents,
          metadata \in RequestMetadata :
          pipeline = [pc |-> "process", content |-> content,
                      doc |-> [ID |-> id, Source |-> source, Metadata |-> metadata,
                               ContentHash |->
                                   hashContent(source \o <<"\n">> \o content)],
                      chunks |-> <<>>, rows |-> <<>>]

NextPipeline ==
    \/ \E fresh \in Uuids : PipelineProcess(fresh)
    \/ \E dbOk \in BOOLEAN : PipelineStore(dbOk)

SpecPipeline == InitPipeline /\ [][NextPipeline]_vars

\* ------------------------------------------------------------------------
\* EmbedBatch (embedder.OllamaEmbedder) and the embedding step of
\* processDocument, the metadata store being up

\* the chunk contents of a document
BatchTexts == UNION {[1..n -> {"x", "y"}] : n \in 0..MaxTexts}

\* the vector Embed returns for a text
Embedding(text) == <<"vector", text>>

\* a send to the semaphore that never waits
AlwaysSlot(held) == TRUE

\* the semaphore takes a send: it holds less than batchConcurrency
HasSlot(held) == held < BatchConcurrency

\* the goroutines of the batch
Workers == 1..Len(batch.texts)

\* a return of whatever the workers stored
PartialResult(results, errors) == [err |-> 0, results |-> results]

\* the end of EmbedBatch: the error of the lowest index that has one and no
\* result, or the results
BatchResult(results, errors) ==
    IF \E i \in DOMAIN errors : errors[i] # "nil"
    THEN [err |-> CHOOSE i \in DOMAIN errors :
                     /\ errors[i] # "nil"
                     /\ \A j \in DOMAIN errors : errors[j] # "nil" => i <= j,
          results |-> <<>>]
    ELSE [err |-> 0, results |-> results]

\* EmbedBatch of no text
EmbedBatchEmpty ==
    /\ batch.pc = "spawn"
    /\ batch.texts = <<>>
    /\ batch' = [batch EXCEPT !.pc = "returned"]
    /\ UNCHANGED exceptBatch

\* the loop of EmbedBatch starts the goroutine of the next text; after the
\* last one it waits in wg.Wait
EmbedBatchSpawn ==
    /\ batch.pc = "spawn"
    /\ batch.spawned < Len(batch.texts)
    /\ batch' = [batch EXCEPT
           !.spawned = @ + 1,
           !.workers[batch.spawned + 1] = "select",
           !.pc = IF batch.spawned + 1 = Len(batch.texts) THEN "wait" ELSE "spawn"]
    /\ UNCHANGED exceptBatch

\* a goroutine gets the semaphore
WorkerAcquire(i) ==
    /\ batch.workers[i] = "select"
    /\ HasSlot(batch.held)
    /\ batch' = [batch EXCEPT !.workers[i] = "embed", !.held = @ + 1]
    /\ UNCHANGED exceptBatch

\* a goroutine finds the context done while it waits for the semaphore
WorkerCancelled(i) ==
    /\ batch.workers[i] = "select"
    /\ batch.ctxDone
    /\ batch' = [batch EXCEPT !.workers[i] = "done", !.errors[i] = "ctx"]
    /\ UNCHANGED exceptBatch

\* the Embed call of a goroutine returns; the goroutine gives the semaphore
\* back and is done
WorkerEmbed(i, ok) ==
    /\ batch.workers[i] = "embed"
    /\ batch' = [batch EXCEPT
           !.workers[i] = "done",
           !.held = @ - 1,
           !.results[i] = IF ok THEN Embedding(batch.texts[i]) ELSE @,
           !.errors[i] = IF ok THEN @ ELSE "embed"]
    /\ UNCHANGED exceptBatch

\* the context of the call is cancelled
BatchCancel ==
    /\ batch.pc \in {"spawn", "wait"}
    /\ ~batch.ctxDone
    /\ batch' = [batch EXCEPT !.ctxDone = TRUE]
    /\ UNCHANGED exceptBatch

\* wg.Wait returns and EmbedBatch with it
EmbedBatchReturn ==
    /\ batch.pc = "wait"
    /\ \A i \in Workers : batch.workers[i] = "done"
    /\ batch' = [batch EXCEPT !.pc = "returned",
                              !.ret = BatchResult(batch.results, batch.errors)]
    /\ UNCHANGED exceptBatch

\* processDocument after EmbedBatch: markDocumentFailed, or the upsert of
\* the vectors
ProcessEmbedded(vecOk) ==
    /\ batch.pc = "returned"
    /\ batch' = [batch EXCEPT
           !.pc = "stored",
           !.status = IF batch.ret.err # 0 \/ ~vecOk THEN "FAILED" ELSE "PROCESSING",
           !.error_message = IF batch.ret.err # 0 THEN "embedding failed"
                             ELSE IF ~vecOk THEN "vector storage failed" ELSE "",
           !.upserted = IF batch.ret.err = 0 /\ vecOk THEN batch.ret.results ELSE <<>>]
    /\ UNCHANGED exceptBatch

InitBatch ==
    /\ DocInit /\ PipeIdle
    /\ tenant = NoTenant /\ treply = NoQuery /\ MemoryIdle /\ rpc = NoQuery
    /\ chunker = NoQuery /\ session = NoQuery /\ pipeline = NoQuery
    /\ \E texts \in BatchTexts :
          batch = [pc |-> "spawn", texts |-> texts, spawned |-> 0, held |-> 0,
                   ctxDone |-> FALSE,
                   workers |-> [i \in 1..Len(texts) |-> "none"],
                   results |-> [i \in 1..Len(texts) |-> <<>>],
                   errors |-> [i \in 1..Len(texts) |-> "nil"],
                   ret |-> [err |-> 0, results |-> <<>>],
                   status |-> "PROCESSING", error_message |-> "", upserted |-> <<>>]

NextBatch ==
    \/ EmbedBatchEmpty
    \/ EmbedBatchSpawn
    \/ \E i \in Workers : WorkerAcquire(i)
    \/ \E i \in Workers : WorkerCancelled(i)
    \/ \E i \in Workers, ok \in BOOLEAN : WorkerEmbed(i, ok)
    \/ BatchCancel
    \/ EmbedBatchReturn
    \/ \E vecOk \in BOOLEAN : ProcessEmbedded(vecOk)

SpecBatch == InitBatch /\ [][NextBatch]_vars

\* ------------------------------------------------------------------------
\* Properties of the document service
\* ------------------------------------------------------------------------
IngestDone(c) == call[c].pc = "done" /\ call[c].op = "IngestDocument"

SameInput(c1, c2) ==
    /\ call[c1].tenant = call[c2].tenant
    /\ call[c1].source = call[c2].source
    /\ call[c1].content = call[c2].content

StatusRank(st) ==
    CASE st = "PENDING" -> 1
      [] st = "PROCESSING" -> 2
      [] st \in {"READY", "FAILED"} -> 3
      [] OTHER -> 0

ChunkRowsOf(d) == {r \in document_chunks : r[1] = d}

PointsOf(d) == {pt \in points : pt[1] = <<"tenant_", documents[d].tenant_id>> /\ pt[2] = d}

\* C1: the stored status of a document only moves forward along PENDING ->
\* PROCESSING -> READY or FAILED; a row that is READY or FAILED keeps that
\* status in every later step, and a row disappears only in the last step of
\* a DeleteDocument call
C1_StatusMonotonic ==
    [][\A d \in DocIds :
          /\ documents[d].status \in {"READY", "FAILED"}
                => documents'[d].status \in {documents[d].status, "NONE"}
          /\ Exists(d) /\ documents'[d].status # "NONE"
                => StatusRank(documents'[d].status) >= StatusRank(documents[d].status)
          /\ Exists(d) /\ documents'[d].status = "NONE" => del[d].pc = "delete_row"]_vars

\* a FAILED row whose task has returned, beside a READY one
C1_Witness ==
    \E d, e \in DocIds :
        /\ documents[d].status = "FAILED" /\ task[d].pc = "done"
        /\ documents[e].status = "READY" /\ task[e].pc = "done"

\* C2: when an IngestDocument call arrives after an earlier call with the same
\* tenant, source and content returned document D, and the row of D is still
\* there, the call returns at once with D, D's stored status and no new row,
\* task, chunk row or vector point
C2_IdempotentIngest ==
    [][\A c, p \in Calls :
          (/\ call[c].pc = "idle" /\ call'[c].op = "IngestDocument"
           /\ IngestDone(p) /\ call[p].res.code = "OK"
           /\ call[p].tenant = call'[c].tenant
           /\ call[p].source = call'[c].source
           /\ call[p].content = call'[c].content
           /\ Exists(call[p].res.id))
          => /\ call'[c].pc = "done"
             /\ call'[c].res = [code |-> "OK", id |-> call[p].res.id,
                                status |-> convertStatus(documents[call[p].res.id].status),
                                created |-> FALSE]
             /\ UNCHANGED <<documents, document_chunks, points, nextId, task>>]_vars

\* a second call answered with the READY document of the first
C2_Witness ==
    \E c, p \in Calls :
        /\ IngestDone(c) /\ IngestDone(p) /\ p \in call[c].after /\ SameInput(c, p)
        /\ call[p].res.created /\ ~call[c].res.created
        /\ call[c].res.code = "OK" /\ call[c].res.id = call[p].res.id
        /\ call[c].res.status = "READY"

\* C3: IngestDocument calls with the same tenant, source and content that run
\* at the same time all return OK with the id of one and the same row
C3_ConcurrentIngest ==
    \A c1, c2 \in Calls :
        (/\ IngestDone(c1) /\ IngestDone(c2) /\ SameInput(c1, c2)
         /\ call[c1].content # <<>>
         /\ c1 \notin call[c2].after /\ c2 \notin call[c1].after)
        => /\ call[c1].res.code = "OK" /\ call[c2].res.code = "OK"
           /\ call[c1].res.id = call[c2].res.id

\* C4: in every state a READY row's chunk_count is the number of its chunk
\* rows and the number of its points in its tenant's collection
C4_ReadyCounts ==
    \A d \in DocIds :
        documents[d].status = "READY"
        => /\ documents[d].chunk_count = Cardinality(ChunkRowsOf(d))
           /\ documents[d].chunk_count = Cardinality(PointsOf(d))

\* C5: once the background task of a document has ended, by returning or by
\* a panic, the stored row is READY or FAILED, and it is FAILED with an error
\* message when a step failed
C5_FailClosed ==
    \A d \in DocIds :
        (task[d].pc \in {"done", "panic"} /\ Exists(d))
        => /\ documents[d].status \in {"READY", "FAILED"}
           /\ task[d].doc.status = "FAILED"
                => documents[d].status = "FAILED" /\ documents[d].error_message # ""

\* C6: every point of a document lies in the collection "tenant_" + the
\* document's tenant, and a search made for a tenant returns chunks of that
\* tenant's documents only
C6_TenantIsolation ==
    /\ \A pt \in points : pt[1] = <<"tenant_", documents[pt[2]].tenant_id>>
    /\ \A d \in hits.docs : documents[d].tenant_id = hits.tenant

\* a search of tenant t1 that returned chunks while tenant t2 had points
C6_Witness ==
    /\ hits.tenant = "t1" /\ hits.docs # {}
    /\ \E pt \in points : pt[1] = <<"tenant_", "t2">>

\* the IngestURL calls that have returned
UrlDone(c) == call[c].pc = "done" /\ call[c].op = "IngestURL"

\* C11: every IngestURL call that returns has inserted a new row in status
\* PENDING and returns OK with the id of that row and status PENDING, whatever
\* IngestURL calls were made for the tenant before
C11_IngestURLPending ==
    \A c \in Calls :
        UrlDone(c) => /\ call[c].res.code = "OK"
                      /\ call[c].res.created
                      /\ call[c].res.status = "PENDING"

\* the document of a URL task whose fetch returned a page
Fetched(d) == task[d].kind = "url" /\ task[d].content # <<>>

\* another row of the document's tenant holds the hash of the fetched text
Collides(d) ==
    \E e \in DocIds \ {d} :
        /\ Exists(e)
        /\ documents[e].tenant_id = documents[d].tenant_id
        /\ documents[e].content_hash = hashContent(task[d].content)

AnyIngestDone(c) == call[c].pc = "done" /\ call[c].op \in {"IngestDocument", "IngestURL"}

\* C13: the rows of a tenant have different content hashes, and two
\* ingestions of one tenant whose source URIs differ are not taken for
\* duplicates of each other: both return OK, each with a row of its own
C13_HashCoversSource ==
    /\ \A d, e \in DocIds :
          (d # e /\ Exists(d) /\ Exists(e)
           /\ documents[d].tenant_id = documents[e].tenant_id)
          => documents[d].content_hash # documents[e].content_hash
    /\ \A c1, c2 \in Calls :
          (/\ AnyIngestDone(c1) /\ AnyIngestDone(c2)
           /\ call[c1].tenant = call[c2].tenant
           /\ call[c1].source # call[c2].source)
          => /\ call[c1].res.code = "OK" /\ call[c2].res.code = "OK"
             /\ call[c1].res.id # call[c2].res.id

\* an earlier call that created a row with the input of call c, the row not
\* deleted when c arrived
LiveDuplicate(c) ==
    \E p \in call[c].after :
        /\ IngestDone(p) /\ SameInput(c, p)
        /\ call[p].res.created /\ call[p].res.id \notin call[c].gone

\* C9: a document returned by IngestDocument can be read until its deletion
\* starts; after a DeleteDocument that returned success it is not found; and a
\* later IngestDocument with the input of the deleted document succeeds with
\* another id, creating a row unless a row made after the deletion is there
C9_RoundTrip ==
    /\ \A c \in Calls :
          (IngestDone(c) /\ call[c].res.code = "OK" /\ del[call[c].res.id].pc = "idle")
          => GetDocument(call[c].res.id).code = "OK"
    /\ \A d \in Gone : GetDocument(d).code = "NotFound"
    /\ \A c \in Calls, d \in DocIds :
          (/\ IngestDone(c) /\ d \in call[c].gone
           /\ task[d].doc.tenant_id = call[c].tenant
           /\ task[d].doc.content_hash = call[c].hash)
          => /\ call[c].res.code = "OK"
             /\ call[c].res.id # d
             /\ call[c].res.id \notin call[c].gone
             /\ ~LiveDuplicate(c) => call[c].res.created

\* ingest, delete, ingest again: a new row under a new id
C9_Witness ==
    \E c \in Calls, d \in DocIds :
        /\ IngestDone(c) /\ d \in call[c].gone
        /\ task[d].doc.content_hash = call[c].hash
        /\ call[c].res.created /\ call[c].res.id # d
        /\ GetDocument(call[c].res.id).code = "OK"
        /\ GetDocument(d).code = "NotFound"

DeleteOrder == <<"vectors", "chunks", "row">>

\* C10: a DeleteDocument call that found the document deletes the vectors,
\* then the chunk rows, then the row, whether or not the vector deletion
\* failed; when it returns success the row and its chunk rows are gone; and no
\* row disappears before its vector deletion was attempted
C10_DeleteOrder ==
    \A d \in DocIds :
        /\ \E k \in 0..Len(DeleteOrder) : del[d].steps = SubSeq(DeleteOrder, 1, k)
        /\ (del[d].pc = "done" /\ del[d].code # "NotFound") => del[d].steps = DeleteOrder
        /\ (del[d].pc = "done" /\ del[d].code = "OK") => ~Exists(d) /\ ChunkRowsOf(d) = {}
        /\ (task[d].kind # "none" /\ ~Exists(d)) => del[d].steps # <<>>

\* a deletion that returned success although its vector deletion failed
C10_Witness ==
    \E d \in DocIds :
        /\ del[d].pc = "done" /\ del[d].code = "OK" /\ del[d].vecErr
        /\ task[d].chunks > 0 /\ ~Exists(d)

\* ------------------------------------------------------------------------
\* Properties of the query pipeline

\* the response of the query has been assembled
QueryDone == query.pc = "done"

\* the request has been answered against the tenant's configuration
Resolved == query.op # "none"

\* C14: the effective top_k of a request is the request option when positive,
\* else the tenant's top_k when positive, else 4; the effective min_score is
\* the request option when positive, else the tenant's when positive, else
\* 0.5; and the store is never searched with limit 0
C14_ConfigResolution ==
    Resolved =>
        /\ query.topK = IF query.optTopK > 0 THEN query.optTopK
                        ELSE IF query.tenantTopK > 0 THEN query.tenantTopK
                        ELSE DefaultTopK
        /\ query.minScore = IF query.optMinScore > 0 THEN query.optMinScore
                            ELSE IF query.tenantMinScore > 0 THEN query.tenantMinScore
                            ELSE DefaultMinScore
        /\ query.limit > 0

\* C7 (as stated): a response holds at most topK sources and every score of a
\* source is at least the resolved min_score
C7_TopKMinScore ==
    QueryDone =>
        /\ Len(query.results) <= query.topK
        /\ \A i \in 1..Len(query.results) : query.results[i].score >= query.minScore

\* C7 (amended): a response holds at most topK sources; every score is at
\* least min_score unless the reranker scored the candidates, and then every
\* score is a reranker score between 0 and 1
C7_TopKMinScoreUnlessReranked ==
    QueryDone =>
        /\ Len(query.results) <= query.topK
        /\ \A i \in 1..Len(query.results) :
              IF query.rerank = "scored"
              THEN query.results[i].score \in 0..ScoreOne
              ELSE query.results[i].score >= query.minScore

\* a reranked response that was cut to topK sources and holds a score below
\* min_score
C7_Witness ==
    /\ QueryDone
    /\ query.rerank = "scored"
    /\ Len(query.results) = query.topK
    /\ Len(query.collection) > query.topK
    /\ \E i \in 1..Len(query.results) : query.results[i].score < query.minScore

\* ------------------------------------------------------------------------
\* Properties of QueryStream

\* the events are sources source events, then at least minTokens token events,
\* then the event last
StreamMatches(sources, minTokens, last) ==
    /\ Len(events) >= sources + minTokens + 1
    /\ \A i \in 1..(Len(events) - 1) :
          events[i] = IF i <= sources THEN "source" ELSE "token"
    /\ events[Len(events)] = last

\* the events are source events, then token events, with no closing event
StreamOpen ==
    \E sources \in 0..Len(events) :
        \A i \in 1..Len(events) : events[i] = IF i <= sources THEN "source" ELSE "token"

\* the call has returned nil
StreamReturnedOk == qs.pc = "returned" /\ qs.code = "OK"

\* C8 (as stated): a call that returned nil has emitted its sources, then at
\* least one token and the metadata when the LLM stream ended without error,
\* or tokens and the error event when it reported an error
C8_StreamOrder ==
    StreamReturnedOk =>
        IF qs.llmError THEN StreamMatches(qs.n, 0, "error")
        ELSE StreamMatches(qs.n, 1, "metadata")

\* C8 (amended): a call that returned nil has emitted its sources, then the
\* non-empty tokens, of which there may be none, then the metadata when the
\* LLM stream ended without error or the error event when it reported one;
\* until then, and in a call that fails, the events are sources then tokens
C8_StreamOrderTokensOptional ==
    IF qs.code = "OK"
    THEN /\ qs.pc = "returned"
         /\ StreamMatches(qs.n, 0, IF qs.llmError THEN "error" ELSE "metadata")
    ELSE StreamOpen

\* a call that returned nil after sources, tokens and the metadata
C8_Witness ==
    /\ StreamReturnedOk
    /\ ~qs.llmError
    /\ qs.n > 0
    /\ StreamMatches(qs.n, 1, "metadata")

\* ------------------------------------------------------------------------
\* Properties of the tenant service

\* the validation rules of tenant configurations
ValidConfig(config) ==
    /\ config.EmbeddingModel # ""
    /\ config.LLMModel # ""
    /\ config.Method \in {"fixed", "semantic", "sentence"}
    /\ config.TargetSize <= config.MaxSize
    /\ config.Overlap >= 0
    /\ config.Overlap < config.TargetSize
    /\ config.TopK > 0
    /\ config.MinScore >= 0 /\ config.MinScore <= 100

\* C15: the persisted configuration of a tenant satisfies every validation
\* rule, and a call answered with invalid-argument has persisted nothing
C15_PersistedConfigValid ==
    /\ tenant # NoTenant => ValidConfig(tenant.Config)
    /\ (treply # NoQuery /\ treply.code = "InvalidArgument") => tenant = treply.before

\* ------------------------------------------------------------------------
\* Properties of the conversation memory

\* the last appends of a session, as many as the store keeps
RecentAppends(sessionID) ==
    IF Len(appended[sessionID]) > MaxMessages
    THEN LastOf(appended[sessionID], MaxMessages)
    ELSE appended[sessionID]

\* C16: with max_messages = M > 0 a session never holds more than M
\* messages, and what it holds are the most recently appended messages of
\* the session, at most M of them, in the order they were appended
C16_BoundedHistory ==
    \A sessionID \in Sessions :
        /\ Len(conversations[sessionID].Messages) <= MaxMessages
        /\ conversations[sessionID].Messages = RecentAppends(sessionID)

\* a session that took more than M appends
C16_Witness ==
    \E sessionID \in Sessions :
        /\ memOp.pc = "done" /\ memOp.op = "addMessage"
        /\ Len(appended[sessionID]) > MaxMessages
        /\ Len(conversations[sessionID].Messages) = MaxMessages

\* the time of the last append to a session the store holds
LastAppendAt(sessionID) ==
    appended[sessionID][Len(appended[sessionID])].Timestamp

\* the last append to a session is older than ttl
Stale(sessionID) == now - LastAppendAt(sessionID) > Ttl

\* a sweep removes the sessions whose last append is older than ttl and no other
SweepRemovesStale ==
    memOp'.op = "cleanup" =>
        \A sessionID \in Sessions :
            conversations'[sessionID] =
                IF conversations[sessionID].exists /\ Stale(sessionID)
                THEN NoConversation
                ELSE conversations[sessionID]

\* a read changes no session, so a stale session stays stale
ReadKeepsAge ==
    memOp'.op \in {"GetHistory", "GetRecentHistory"} =>
        /\ conversations' = conversations
        /\ \A sessionID \in Sessions :
               conversations[sessionID].exists =>
                   (Stale(sessionID) <=> Expired(conversations'[sessionID], now'))

\* an append to a stale session the sweep has not removed keeps its messages
\* and makes it live
AppendRevives ==
    memOp'.op = "addMessage" =>
        LET sessionID == memOp'.sessionID
            before == conversations[sessionID]
            after == conversations'[sessionID]
        IN (before.exists /\ Stale(sessionID)) =>
               /\ after.exists
               /\ ~Expired(after, now')
               /\ after.CreatedAt = before.CreatedAt
               /\ after.Messages =
                      Trim(Append(before.Messages, after.Messages[Len(after.Messages)]))

\* C17: expiry is measured from the last append: a sweep removes exactly the
\* sessions whose last append is older than ttl, a read does not extend the
\* life of a session, and an append to an expired session that was not yet
\* swept makes it live again with its earlier messages
C17_ExpiryFromLastAppend ==
    [][SweepRemovesStale /\ ReadKeepsAge /\ AppendRevives]_vars

\* an append has revived an expired session the sweep had not removed,
\* and its earlier message is still there
C17_Witness ==
    /\ memOp.pc = "done" /\ memOp.op = "addMessage"
    /\ memOp.before.exists
    /\ Expired(memOp.before, now)
    /\ Len(conversations[memOp.sessionID].Messages) = MaxMessages
    /\ conversations[memOp.sessionID].Messages[MaxMessages - 1] \in
           {memOp.before.Messages[k] : k \in 1..Len(memOp.before.Messages)}

\* ------------------------------------------------------------------------
\* Properties of the status of Query, QueryStream and Retrieve

\* C18: a malformed tenant id yields invalid-argument, a tenant that does
\* not exist yields not-found, a failure of the metadata store while the
\* tenant is loaded, of the embedding, of the search or of the blocking LLM
\* call yields internal, and an LLM failure while streaming yields an error
\* event as the last event of a call that ends in order
C18_ErrorMapping ==
    rpc.pc = "done" =>
        /\ rpc.cause = "malformed" => rpc.code = "InvalidArgument"
        /\ rpc.cause = "missing" => rpc.code = "NotFound"
        /\ rpc.cause \in {"store", "embed", "search", "llm"} => rpc.code = "Internal"
        /\ rpc.cause = "llmstream" =>
               /\ rpc.code = "OK"
               /\ rpc.events # <<>>
               /\ rpc.events[Len(rpc.events)] = "error"

\* ------------------------------------------------------------------------
\* Properties of the chunker

\* the number of fences in a text
FenceCount(text) == Len(SelectSeq(text, LAMBDA item : item = Fence))

\* every fence of the text opens or closes a code block of the text
WellFenced(text) == FenceCount(text) = 2 * Len(FindCodeBlocks(text, 1))

\* C19: with the semantic method, whatever the sizes and the overlap, every
\* chunk marked contains_code holds exactly one complete fenced code block,
\* and no chunk holds a broken fence: every opening fence of a chunk has its
\* closing fence in the chunk, the overlap in front of it included
C19_CodeBlocksWhole ==
    (chunker.pc = "done" /\ MethodOf(chunker.config) = "semantic" /\ WellFenced(chunker.text)) =>
        \A k \in 1..Len(chunker.chunks) :
            LET content == chunker.chunks[k].Content
            IN /\ FenceCount(content) % 2 = 0
               /\ chunker.chunks[k].contains_code => Len(FindCodeBlocks(content, 1)) = 1

\* a chunk without its overlap: what follows the first blank line
StripOverlap(chunk) ==
    IF chunk.has_overlap
    THEN LET at == Lowest({k \in 1..Len(chunk.Content) : chunk.Content[k] = "\n\n"})
         IN SubSeq(chunk.Content, at + 1, Len(chunk.Content))
    ELSE chunk.Content

RECURSIVE Concatenated(_)
\* the words of the chunks one after the other, overlaps stripped
Concatenated(chunks) ==
    IF chunks = <<>> THEN <<>>
    ELSE WordList(StripOverlap(Head(chunks))) \o Concatenated(Tail(chunks))

RECURSIVE IsSubsequence(_, _)
\* the words of part are in whole, in that order
IsSubsequence(part, whole) ==
    IF part = <<>> THEN TRUE
    ELSE IF whole = <<>> THEN FALSE
    ELSE IF Head(part) = Head(whole) THEN IsSubsequence(Tail(part), Tail(whole))
    ELSE IsSubsequence(part, Tail(whole))

\* C20: with every method the contents of the chunks, one after the other
\* and without their overlap and section prefixes, hold every word of the
\* text in the order of the text; no word is lost or replaced by a
\* placeholder, a word of a code block that no blank line sets apart included
C20_TokensPreserved ==
    chunker.pc = "done" =>
        IsSubsequence(WordList(chunker.text), Concatenated(chunker.chunks))

\* C21: Chunk returns no chunk for a text that is blank after trimming; for
\* every other text and every configuration, an unknown method and an
\* overlap of target_size or more included, it returns chunks whose Index
\* values are 0..N-1 in order, whose contents are not empty and whose
\* metadata name a method
C21_DenseIndex ==
    chunker.pc = "done" =>
        IF TrimSpace(chunker.text) = <<>> THEN chunker.chunks = <<>>
        ELSE /\ chunker.chunks # <<>>
             /\ \A k \in 1..Len(chunker.chunks) :
                    /\ chunker.chunks[k].Index = k - 1
                    /\ TrimSpace(chunker.chunks[k].Content) # <<>>
                    /\ chunker.chunks[k].method \in {"fixed", "sentence", "semantic"}

\* a large paragraph was split under an unknown method with an overlap above
\* target_size, and the chunks after it were numbered on
C21_Witness ==
    /\ chunker.pc = "done"
    /\ chunker.config.Method = "bogus"
    /\ chunker.config.Overlap >= chunker.config.TargetSize
    /\ Len(chunker.chunks) >= 3

\* C22: the reranker cannot fail a query. When it returns an error or its
\* response cannot be parsed, the sources are the deduplicated candidates
\* with their vector scores in their order, cut to top_k; when it scores,
\* the scores of the sources are reranker scores within [0, 1], descending
C22_RerankNonFatal ==
    (query.pc = "done" /\ query.op = "Query") =>
        /\ query.rerank \in {"error", "fallback"} =>
               query.results = Take(query.candidates, query.topK)
        /\ query.rerank = "scored" =>
               /\ Len(query.results) <= query.topK
               /\ \A i \in 1..Len(query.results) :
                      /\ query.results[i].score >= 0
                      /\ query.results[i].score <= ScoreOne
                      /\ \E j \in 1..Len(query.candidates) :
                             query.candidates[j].content = query.results[i].content
               /\ \A i, j \in 1..Len(query.results) :
                      i < j => query.results[i].score >= query.results[j].score

\* the reranker failed on more candidates than top_k and the query answered
C22_Witness ==
    /\ query.pc = "done" /\ query.op = "Query"
    /\ query.rerank = "error"
    /\ Len(query.candidates) > query.topK
    /\ Len(query.results) = query.topK

\* C23: when QueryStream returns while the reader goroutine of GenerateStream
\* is still running, the goroutine ends in time: it is not left blocked on a
\* send to the channel, and it closes the channel and the response body
C23_ProducerTerminates ==
    (qs.pc = "returned" /\ gen.pc \in {"read", "send"}) ~> (gen.pc = "closed")

\* ------------------------------------------------------------------------
\* Properties of EmbedBatch

\* the Embed requests in flight
InFlight == {i \in Workers : batch.workers[i] = "embed"}

\* C24: at no point of an EmbedBatch call are more than batch_concurrency
\* Embed requests in flight, and the call returns only after every goroutine
\* it started has finished, a cancelled context included
C24_BoundedInFlight ==
    /\ Cardinality(InFlight) <= BatchConcurrency
    /\ batch.pc \in {"returned", "stored"} =>
           \A i \in Workers : batch.workers[i] = "done"

\* a batch of more texts than batch_concurrency has returned after its
\* context was cancelled while a goroutine waited for the semaphore
C24_Witness ==
    /\ batch.pc = "returned"
    /\ Len(batch.texts) > BatchConcurrency
    /\ \E i, j \in Workers : batch.errors[i] = "ctx" /\ batch.results[j] # <<>>

Embeddings(input, output) ==
    {f \in [1..Len(output) -> 1..Len(input)] :
        /\ \A k \in 1..(Len(output) - 1) : f[k] < f[k + 1]
        /\ \A k \in 1..Len(output) : output[k] = input[f[k]]}

\* the positions a selection keeps
Kept(f) == {f[k] : k \in DOMAIN f}

\* the contents at two positions have a Jaccard similarity of 0.7 or more
Similar(input, i, j) ==
    jaccardSimilarity(tokenize(input[i].content), tokenize(input[j].content))
        >= DedupThreshold

\* C26 as stated: the output keeps the order of the input and its first
\* candidate, and for every pair of positions i < j with similar contents
\* candidate j is not in the output
C26_EveryPairDropped ==
    query.pc = "rerank" =>
        \E f \in Embeddings(query.collection, query.candidates) :
            /\ Len(query.collection) > 0 => 1 \in Kept(f)
            /\ \A i, j \in 1..Len(query.collection) :
                   i < j /\ Similar(query.collection, i, j) => j \notin Kept(f)

\* C26: the output keeps the order of the input and its first candidate; for
\* every pair of positions i < j with similar contents of which i is in the
\* output, candidate j is not; and a candidate is left out only for an earlier
\* candidate of the output that is similar to it
C26_KeptPairsDropped ==
    query.pc = "rerank" =>
        \E f \in Embeddings(query.collection, query.candidates) :
            /\ Len(query.collection) > 0 => 1 \in Kept(f)
            /\ \A i, j \in 1..Len(query.collection) :
                   i \in Kept(f) /\ i < j /\ Similar(query.collection, i, j)
                       => j \notin Kept(f)
            /\ \A j \in 1..Len(query.collection) :
                   j \notin Kept(f) =>
                       \E i \in Kept(f) : i < j /\ Similar(query.collection, i, j)

\* three candidates deduplicated: the second is dropped for the first, the
\* third is similar to the second, not to the first, and is kept
C26_Witness ==
    /\ query.pc = "rerank"
    /\ Len(query.collection) = 3
    /\ Len(query.candidates) = 2
    /\ Similar(query.collection, 1, 2)
    /\ Similar(query.collection, 2, 3)
    /\ ~Similar(query.collection, 1, 3)
    /\ query.candidates[2] = query.collection[3]

\* ------------------------------------------------------------------------
\* Deletion against ingestion

\* C27: once DeleteDocument of a document has returned success, its vector
\* delete having succeeded, and the background task of the document has
\* returned, no chunk row and no point of any collection carries the
\* document's id
C27_DeleteReclaims ==
    \A d \in DocIds :
        (/\ del[d].pc = "done" /\ del[d].code = "OK" /\ ~del[d].vecErr
         /\ task[d].pc = "done")
        => /\ ChunkRowsOf(d) = {}
           /\ {pt \in points : pt[2] = d} = {}

\* ------------------------------------------------------------------------
\* Properties of the calls with a session

\* C28: the history in the prompt of a Query or QueryStream for a tenant
\* holds only messages that queries against this tenant recorded
C28_MemoryPerTenant ==
    session.pc \in {"generate", "done"} =>
        \A k \in 1..Len(session.history) :
            session.history[k] \in session.recorded[session.tenant]

\* the roles of the stored messages of a session
RolesOf(sessionID) ==
    [k \in 1..Len(conversations[sessionID].Messages) |->
        conversations[sessionID].Messages[k].Role]

\* user and assistant messages take turns and an assistant message is the last
Alternates(roles) ==
    /\ \A k \in 1..(Len(roles) - 1) : roles[k] # roles[k + 1]
    /\ Len(roles) > 0 => roles[Len(roles)] = "assistant"

\* C29: a Query or QueryStream with a session_id whose generation failed
\* leaves the stored messages of the session as they were before the call, so
\* between calls the stored messages of every session alternate user,
\* assistant
C29_FailedQueryNoTrace ==
    session.pc = "done" =>
        /\ (session.failed /\ session.sessionID # "") =>
               conversations[session.sessionID].Messages = session.before
        /\ \A sessionID \in Sessions : Alternates(RolesOf(sessionID))

\* ------------------------------------------------------------------------
\* Properties of the chunk rows

\* C30: in every chunk row ingestion stored, the document_id of the metadata
\* is the document_id column of the row, the id of the document, and the
\* content_hash of the metadata is the content_hash of the document
C30_ChunkMetadataOwner ==
    \A i \in 1..Len(pipeline.rows) :
        /\ pipeline.rows[i].DocumentID = pipeline.doc.ID
        /\ pipeline.rows[i].Metadata["document_id"] = pipeline.rows[i].DocumentID
        /\ pipeline.rows[i].Metadata["content_hash"] = pipeline.doc.ContentHash

====
